---- MODULE Spec2Model ----
(***************************************************************************)
(* VocalCoach backend: the response-shaping pipeline of the chat routes    *)
(* (validator, retry orchestrator, fallback generator) and the task        *)
(* endpoints that call the LLM client.                                     *)
(*                                                                         *)
(* A text is a sequence of characters, each character a one-element        *)
(* string; characters TLA+ strings cannot hold are written by code point   *)
(* ("U+2022").  Fixed prose (log-style reasons, the retry instruction) is  *)
(* a sequence of string pieces, so that every message content is a         *)
(* sequence of strings and concatenation is \o.                            *)
(***************************************************************************)
EXTENDS Integers, Sequences, FiniteSets, TLC

VARIABLES
    wordMin,          \* settings.llm_response_word_min
    wordMax,          \* settings.llm_response_word_max
    retryAttempts,    \* settings.llm_response_retry_attempts
    systemPrompt,     \* settings.llm_system_prompt (<<>> when None or empty)
    callerFrames,     \* interpreter frames in use where json.loads scans
    base_url,         \* LLMService.base_url
    original,         \* the text handed to a pure function
    pstep,            \* which pure function has been applied to original
    verdict,          \* result of _validate_response(original)
    fallbackOut,      \* result of _apply_fallback(original)
    source,           \* the JSON value a normalizer input was written from
    wrapper,          \* how that value was wrapped into the reply text
    fallbackWord,     \* fallback_word handed to the dictionary normalizer
    normOut,          \* result of a task normalizer on original
    endpoint,         \* the handler serving the request
    request,          \* the request body it was given
    pc,               \* the handler's position
    messages,         \* the conversation the orchestrator was given
    attempt_messages, \* the orchestrator's working conversation
    attempt,          \* loop index of _generate_response_with_constraints
    content,          \* reply text of the last client call
    last_raw,         \* metadata of the last client call
    sent,             \* conversations the LLM client has received, in order
    replies,          \* what the LLM client answered to each of them
    result,           \* what _generate_response_with_constraints returned
    response,         \* what the endpoint answered
    frames,           \* server-sent-event frames emitted so far
    fillWords,        \* `words` of a running _apply_fallback
    fillToken         \* position of `for token in filler` in that run

vars == <<wordMin, wordMax, retryAttempts, systemPrompt, callerFrames, base_url,
          original, pstep,
          verdict, fallbackOut, source, wrapper, fallbackWord, normOut,
          endpoint, request, pc, messages,
          attempt_messages,
          attempt, content, last_raw, sent, replies, result, response,
          frames, fillWords, fillToken>>

cfgVars == <<wordMin, wordMax, retryAttempts, systemPrompt, callerFrames, base_url>>
normVars == <<source, wrapper, fallbackWord, normOut>>
fillVars == <<fillWords, fillToken>>
pureVars == <<original, pstep, verdict, fallbackOut, normVars, fillVars>>
reqVars == <<endpoint, request, pc, messages, attempt_messages, attempt, content,
             last_raw, sent, replies, result, response, frames>>

(***************************************************************************)
(* Bounds of the model.                                                    *)
(***************************************************************************)
MaxLen == 5
MaxWordMax == 2
MaxRetries == 2

\* the frames in use when the decoder starts, for a normalizer called from
\* the top level of a module: module, normalizer, loads, decode, raw_decode
DirectFrames == 5
\* the frames beneath a handler that an event loop runs: those of
\* asyncio.run down to the coroutine, and the handler's own
LoopFrames == 9
\* frames of the server or of a test between its top level and the event
\* loop; the deployment decides how many
MaxHarnessFrames == 2
\* the frames between the event loop and a handler that is served as a
\* route of the application: middleware stack, router, route, request
\* handler, endpoint call
AppFrames == 13
\* the frames in use when the decoder starts inside a handler: awaited
\* directly under the event loop, or served as a route
HandlerFrames ==
    {DirectFrames + LoopFrames + h : h \in 0..MaxHarnessFrames}
    \cup {DirectFrames + LoopFrames + AppFrames + h : h \in 0..MaxHarnessFrames}

\* settings.llm_base_url: its default, and a value that ends in a slash
DefaultBaseUrl ==
    <<"h", "t", "t", "p", ":", "/", "/", "1", "2", "7", ".", "0",
      ".", "0", ".", "1", ":", "1", "2", "3", "4", "/", "v", "1">>
BaseUrlSettings ==
    {DefaultBaseUrl,
     <<"h", "t", "t", "p", ":", "/", "/", "u", "p", "s", "t", "r",
       "e", "a", "m", ".", "i", "n", "v", "a", "l", "i", "d", "/",
       "v", "1", "/">>}

RECURSIVE RStripSlash(_)
\* base_url.rstrip("/")
RStripSlash(t) ==
    IF t # <<>> /\ t[Len(t)] = "/" THEN RStripSlash(SubSeq(t, 1, Len(t) - 1)) ELSE t

None == "None"

\* an optional text: None, or the text
Nothing == <<>>
Some(t) == <<t>>

\* ------------------------------------------------------------------------
\* Characters
\* ------------------------------------------------------------------------

\* [A-Za-z], the class of _WORD_PATTERN
Letters ==
    {"a", "b", "c", "d", "e", "f", "g", "h", "i", "j", "k", "l", "m",
     "n", "o", "p", "q", "r", "s", "t", "u", "v", "w", "x", "y", "z",
     "A", "B", "C", "D", "E", "F", "G", "H", "I", "J", "K", "L", "M",
     "N", "O", "P", "Q", "R", "S", "T", "U", "V", "W", "X", "Y", "Z"}

\* the characters str.strip() and str.split() treat as whitespace
Whitespace ==
    {" ", "\t", "\n", "\r", "\f", "U+000B", "U+001C", "U+001D", "U+001E",
     "U+001F", "U+0085", "U+00A0", "U+1680", "U+2000", "U+2001", "U+2002",
     "U+2003", "U+2004", "U+2005", "U+2006", "U+2007", "U+2008", "U+2009",
     "U+200A", "U+2028", "U+2029", "U+202F", "U+205F", "U+3000"}

\* the symbol glyphs alone, without the three line-break characters
ForbiddenSymbolsOnly ==
    {"#", "*", "/", "%", "-", "\"", "'", "U+0060",
     "U+2022", "U+25CF", "U+25AA", "U+2027", "U+00B7",
     "U+201C", "U+201D", "U+2018", "U+2019", "U+2013", "U+2014"}

\* U+0060 is the backtick; then the non-ASCII glyphs in source order
_FORBIDDEN_CHARS ==
    {"#", "*", "/", "%", "-", "\"", "'", "U+0060",
     "U+2022", "U+25CF", "U+25AA", "U+2027", "U+00B7",
     "U+201C", "U+201D", "U+2018", "U+2019", "U+2013", "U+2014",
     "\n", "\r", "\t"}

\* the characters U+0020..U+007E, in code point order
AsciiPrintable ==
    <<" ", "!", "\"", "#", "$", "%", "&", "'", "(", ")",
      "*", "+", ",", "-", ".", "/", "0", "1", "2", "3",
      "4", "5", "6", "7", "8", "9", ":", ";", "<", "=",
      ">", "?", "@", "A", "B", "C", "D", "E", "F", "G",
      "H", "I", "J", "K", "L", "M", "N", "O", "P", "Q",
      "R", "S", "T", "U", "V", "W", "X", "Y", "Z", "[",
      "\\", "]", "^", "_", "U+0060", "a", "b", "c", "d", "e",
      "f", "g", "h", "i", "j", "k", "l", "m", "n", "o",
      "p", "q", "r", "s", "t", "u", "v", "w", "x", "y",
      "z", "{", "|", "}", "~">>

HexVal(ch) ==
    CASE ch \in {"a", "A"} -> 10
      [] ch \in {"b", "B"} -> 11
      [] ch \in {"c", "C"} -> 12
      [] ch \in {"d", "D"} -> 13
      [] ch \in {"e", "E"} -> 14
      [] ch \in {"f", "F"} -> 15
      [] OTHER -> CHOOSE d \in 0..9 : ToString(d) = ch

PrintableAscii == {AsciiPrintable[k] : k \in 1..Len(AsciiPrintable)}

\* the hexadecimal digits, upper case and lower case, by value
HexDigitsUpper ==
    <<"0", "1", "2", "3", "4", "5", "6", "7", "8", "9", "A", "B", "C", "D", "E", "F">>
HexDigitsLower ==
    <<"0", "1", "2", "3", "4", "5", "6", "7", "8", "9", "a", "b", "c", "d", "e", "f">>

RECURSIVE HexToNat(_)
\* the number a string of hexadecimal digits denotes
HexToNat(h) ==
    IF h = <<>> THEN 0
    ELSE 16 * HexToNat(SubSeq(h, 1, Len(h) - 1)) + HexVal(h[Len(h)])

\* the hexadecimal digits of a character written as U+ and its code point
NameDigits(ch) == [k \in 1..(Len(ch) - 2) |-> SubSeq(ch, k + 2, k + 2)]

\* ord(ch): a character is written as itself when it is printable ASCII or
\* one of \t \n \f \r, and as U+ and its code point in hexadecimal otherwise
\* (U+0060 is the backtick)
CodePoint(ch) ==
    CASE ch = "\t" -> 9
      [] ch = "\n" -> 10
      [] ch = "\f" -> 12
      [] ch = "\r" -> 13
      [] ch \in PrintableAscii ->
            31 + (CHOOSE k \in 1..Len(AsciiPrintable) : AsciiPrintable[k] = ch)
      [] OTHER -> HexToNat(NameDigits(ch))

RECURSIVE NatToHex(_, _, _)
\* n in hexadecimal with the given digits, at least `width` of them, as a
\* sequence of characters
NatToHex(n, width, digits) ==
    IF n < 16 /\ width <= 1 THEN <<digits[n + 1]>>
    ELSE NatToHex(n \div 16, width - 1, digits) \o <<digits[(n % 16) + 1]>>

RECURSIVE Glue(_)
\* the characters of a sequence as one string
Glue(t) == IF t = <<>> THEN "" ELSE Head(t) \o Glue(Tail(t))

\* chr(cp)
CharOf(cp) ==
    IF cp >= 32 /\ cp <= 126 THEN AsciiPrintable[cp - 31]
    ELSE IF cp = 9 THEN "\t"
    ELSE IF cp = 10 THEN "\n"
    ELSE IF cp = 12 THEN "\f"
    ELSE IF cp = 13 THEN "\r"
    ELSE "U+" \o Glue(NatToHex(cp, 4, HexDigitsUpper))

\* ------------------------------------------------------------------------
\* String primitives of the language, as the routes use them
\* ------------------------------------------------------------------------

SetMin(S) == CHOOSE i \in S : \A j \in S : i <= j
SetMax(S) == CHOOSE i \in S : \A j \in S : j <= i

\* str.strip(): drop leading and trailing whitespace
PyStrip(t) ==
    LET keep == {i \in 1..Len(t) : t[i] \notin Whitespace}
    IN  IF keep = {} THEN <<>> ELSE SubSeq(t, SetMin(keep), SetMax(keep))

RECURSIVE SplitRec(_, _, _)
SplitRec(t, cur, acc) ==
    IF t = <<>>
    THEN IF cur = <<>> THEN acc ELSE Append(acc, cur)
    ELSE IF Head(t) \in Whitespace
         THEN SplitRec(Tail(t), <<>>, IF cur = <<>> THEN acc ELSE Append(acc, cur))
         ELSE SplitRec(Tail(t), Append(cur, Head(t)), acc)

\* str.split() without a separator: the maximal runs of non-whitespace
PySplit(t) == SplitRec(t, <<>>, <<>>)

RECURSIVE PyJoin(_)
\* " ".join(tokens)
PyJoin(tokens) ==
    IF tokens = <<>> THEN <<>>
    ELSE IF Len(tokens) = 1 THEN tokens[1]
    ELSE tokens[1] \o <<" ">> \o PyJoin(Tail(tokens))

\* seq[:n], with the language's meaning of a negative n
PyPrefix(s, n) ==
    IF n >= 0
    THEN SubSeq(s, 1, IF n < Len(s) THEN n ELSE Len(s))
    ELSE SubSeq(s, 1, IF Len(s) + n > 0 THEN Len(s) + n ELSE 0)

\* str(n) inside an f-string
PyStr(n) == ToString(n)

\* ------------------------------------------------------------------------
\* chat.py: text helpers
\* ------------------------------------------------------------------------

_normalize_whitespace(text) == PyJoin(PySplit(PyStrip(text)))

\* every character is kept
KeepForbidden(text) == text

_strip_forbidden(text) == SelectSeq(text, LAMBDA ch : ch \notin _FORBIDDEN_CHARS)

\* counting whitespace-separated tokens instead of letter runs
CountTokens(text) == Len(PySplit(text))

\* len(_WORD_PATTERN.findall(text)): the number of maximal runs of letters
_count_words(text) ==
    Cardinality({i \in 1..Len(text) :
                    /\ text[i] \in Letters
                    /\ (i = 1 \/ text[i - 1] \notin Letters)})

ReasonEmpty == <<"the response was empty">>
ReasonForbidden == <<"the response used forbidden symbols or line breaks">>
ReasonTooFew(n) == <<"the response only used ", PyStr(n), " words">>
ReasonTooMany(n) == <<"the response used ", PyStr(n), " words">>

\* the word-count rules tried before the forbidden-character rule
ValidateCountFirst(text, lo, hi) ==
    IF PyStrip(text) = <<>>
    THEN [ok |-> FALSE, reason |-> ReasonEmpty]
    ELSE LET word_total == _count_words(_normalize_whitespace(text))
         IN  IF word_total < lo
             THEN [ok |-> FALSE, reason |-> ReasonTooFew(word_total)]
             ELSE IF word_total > hi
             THEN [ok |-> FALSE, reason |-> ReasonTooMany(word_total)]
             ELSE IF \E i \in 1..Len(text) : text[i] \in _FORBIDDEN_CHARS
             THEN [ok |-> FALSE, reason |-> ReasonForbidden]
             ELSE [ok |-> TRUE, reason |-> <<>>]

\* the minimum compared with <= instead of <
ValidateOffByOne(text, lo, hi) ==
    IF PyStrip(text) = <<>>
    THEN [ok |-> FALSE, reason |-> ReasonEmpty]
    ELSE IF \E i \in 1..Len(text) : text[i] \in _FORBIDDEN_CHARS
    THEN [ok |-> FALSE, reason |-> ReasonForbidden]
    ELSE LET word_total == _count_words(_normalize_whitespace(text))
         IN  IF word_total <= lo
             THEN [ok |-> FALSE, reason |-> ReasonTooFew(word_total)]
             ELSE IF word_total > hi
             THEN [ok |-> FALSE, reason |-> ReasonTooMany(word_total)]
             ELSE [ok |-> TRUE, reason |-> <<>>]

\* _validate_response under settings (lo, hi) = (word_min, word_max)
ValidateWith(text, lo, hi) ==
    IF PyStrip(text) = <<>>
    THEN [ok |-> FALSE, reason |-> ReasonEmpty]
    ELSE IF \E i \in 1..Len(text) : text[i] \in _FORBIDDEN_CHARS
    THEN [ok |-> FALSE, reason |-> ReasonForbidden]
    ELSE LET normalized == _normalize_whitespace(text)
             word_total == _count_words(normalized)
         IN  IF word_total < lo
             THEN [ok |-> FALSE, reason |-> ReasonTooFew(word_total)]
             ELSE IF word_total > hi
             THEN [ok |-> FALSE, reason |-> ReasonTooMany(word_total)]
             ELSE [ok |-> TRUE, reason |-> <<>>]

_validate_response(text) == ValidateWith(text, wordMin, wordMax)

_build_retry_instruction(reason) ==
    <<"Rewrite your previous answer now so it follows every rule: respond in two or three sentences, ",
      "use a total of five to fifteen English words, avoid quotation marks, emoji, special symbols ",
      "(# * / % -), apostrophes, and bullet lists, and keep commas natural. You failed because ">>
    \o reason \o <<". Produce a corrected answer immediately.">>

\* ------------------------------------------------------------------------
\* chat.py: the fallback generator
\* ------------------------------------------------------------------------

DefaultWords ==
    << <<"I">>, <<"w","i","l","l">>, <<"k","e","e","p">>,
       <<"p","r","a","c","t","i","s","i","n","g">>, <<"c","l","e","a","r">>,
       <<"E","n","g","l","i","s","h">>, <<"s","e","n","t","e","n","c","e","s">>,
       <<"e","a","c","h">>, <<"d","a","y">>, <<"t","o">>, <<"b","u","i","l","d">>,
       <<"s","t","e","a","d","y">>, <<"c","o","n","f","i","d","e","n","c","e">>,
       <<"a","n","d">>, <<"s","t","a","y">>, <<"c","a","l","m">>,
       <<"d","u","r","i","n","g">>, <<"o","u","r">>,
       <<"c","o","n","v","e","r","s","a","t","i","o","n">> >>

FillerText ==
    <<"I"," ","f","o","c","u","s"," ","o","n"," ","c","a","l","m"," ",
      "p","a","c","i","n","g"," ","a","n","d"," ",
      "t","h","o","u","g","h","t","f","u","l"," ","i","d","e","a","s"," ",
      "w","h","i","l","e"," ","e","x","p","r","e","s","s","i","n","g"," ",
      "m","y","s","e","l","f"," ","a","n","d"," ",
      "e","n","c","o","u","r","a","g","i","n","g"," ",
      "p","a","t","i","e","n","t"," ","p","r","o","g","r","e","s","s"," ",
      "e","v","e","r","y"," ","d","a","y">>

filler == PySplit(FillerText)

RECURSIVE ForFiller(_, _, _)
\* one pass of `for token in filler`, from the i-th token on
ForFiller(words, i, hi) ==
    IF i > Len(filler) THEN words
    ELSE IF Len(words) >= hi THEN words
    ELSE ForFiller(Append(words, filler[i]), i + 1, hi)

RECURSIVE WhileFill(_, _, _)
\* `while len(words) < word_min`
WhileFill(words, lo, hi) ==
    IF ~(Len(words) < lo) THEN words
    ELSE LET after == ForFiller(words, 1, hi)
         IN  IF Len(after) >= lo THEN after ELSE WhileFill(after, lo, hi)

EndsWithTerminal(t) == t # <<>> /\ t[Len(t)] \in {".", "!", "?"}

FallbackNoTruncate(text, lo, hi) ==
    LET sanitized == _normalize_whitespace(_strip_forbidden(text))
        words0 == PySplit(sanitized)
        words1 == IF words0 = <<>> THEN DefaultWords ELSE words0
        words3 == WhileFill(words1, lo, hi)
        fb == PyJoin(words3)
    IN  IF ~EndsWithTerminal(fb) THEN fb \o <<".">> ELSE fb

\* the words are never filled up to the minimum
FallbackNoFill(text, lo, hi) ==
    LET sanitized == _normalize_whitespace(_strip_forbidden(text))
        words0 == PySplit(sanitized)
        words1 == IF words0 = <<>> THEN DefaultWords ELSE words0
        fb == PyJoin(PyPrefix(words1, hi))
    IN  IF ~EndsWithTerminal(fb) THEN fb \o <<".">> ELSE fb

\* _apply_fallback under settings (lo, hi) = (word_min, word_max)
FallbackWith(text, lo, hi) ==
    LET sanitized == _normalize_whitespace(_strip_forbidden(text))
        words0 == PySplit(sanitized)
        words1 == IF words0 = <<>> THEN DefaultWords ELSE words0
        words2 == IF Len(words1) > hi THEN PyPrefix(words1, hi) ELSE words1
        words3 == WhileFill(words2, lo, hi)
        fb == PyJoin(PyPrefix(words3, hi))
    IN  IF ~EndsWithTerminal(fb) THEN fb \o <<".">> ELSE fb

_apply_fallback(text) == FallbackWith(text, wordMin, wordMax)

\* ------------------------------------------------------------------------
\* Inputs
\* ------------------------------------------------------------------------

\* one character of each class the routes distinguish: letter, other
\* printable, space, forbidden whitespace, forbidden symbol, terminal mark
Chars == {"a", "1", " ", "\n", "-", "."}

Texts(n) == UNION {[1..k -> Chars] : k \in 0..n}

\* settings with 1 <= word_min <= word_max
WordBounds == {b \in (1..MaxWordMax) \X (1..MaxWordMax) : b[1] <= b[2]}

NoVerdict == [ok |-> FALSE, reason |-> <<"not validated">>]

\* a local name that is not bound yet
Unbound == <<"<unbound>">>
\* `last_raw: dict = {}`: every .get() on it answers None
EmptyRaw == [id |-> 0, model |-> Nothing, finish_reason |-> None]
NoResult == [kind |-> "none"]
NoResponse == [kind |-> "none"]

\* no normalizer input: the state of a run that applies none
NoSource == [kind |-> "none", val |-> <<>>]
NotNormalized == [kind |-> "none"]

\* no fallback run in steps
IdleFill ==
    /\ fillWords = <<>>
    /\ fillToken = 0

IdleNormalizer ==
    /\ source = NoSource
    /\ wrapper = "none"
    /\ fallbackWord = <<>>
    /\ normOut = NotNormalized

IdleRequest ==
    /\ endpoint = None
    /\ pc = "idle"
    /\ request = [kind |-> "none"]
    /\ messages = <<>>
    /\ attempt_messages = <<>>
    /\ attempt = 0
    /\ content = Unbound
    /\ last_raw = EmptyRaw
    /\ sent = <<>>
    /\ replies = <<>>
    /\ result = NoResult
    /\ response = NoResponse
    /\ frames = <<>>

\* ------------------------------------------------------------------------
\* The validator and the fallback generator applied to one text
\* ------------------------------------------------------------------------

InitPure ==
    /\ callerFrames = DirectFrames
    /\ base_url = RStripSlash(DefaultBaseUrl)
    /\ \E b \in WordBounds : wordMin = b[1] /\ wordMax = b[2]
    /\ retryAttempts = 0
    /\ systemPrompt = <<>>
    /\ original \in Texts(MaxLen)
    /\ pstep = "input"
    /\ verdict = NoVerdict
    /\ fallbackOut = Unbound
    /\ IdleNormalizer
    /\ IdleFill
    /\ IdleRequest

Validate ==
    /\ pstep = "input"
    /\ verdict' = _validate_response(original)
    /\ pstep' = "validated"
    /\ UNCHANGED <<cfgVars, original, fallbackOut, normVars, fillVars, reqVars>>

Fallback ==
    /\ pstep = "input"
    /\ fallbackOut' = _apply_fallback(original)
    /\ pstep' = "fallback"
    /\ UNCHANGED <<cfgVars, original, verdict, normVars, fillVars, reqVars>>

NextPure == Validate \/ Fallback

SpecPure == InitPure /\ [][NextPure]_vars

\* ------------------------------------------------------------------------
\* chat.py: _apply_fallback run statement by statement, for any pair of
\* configured bounds
\* ------------------------------------------------------------------------

\* largest small llm_response_word_min / llm_response_word_max of these runs
MaxFillWords == 3

\* a minimum that one pass over the filler does not reach from one word
SecondPassMin == Len(filler) + 2

\* the settings are plain integers: nothing orders or bounds them below.
\* Every small pair, and two pairs that need a second pass of the `while`
\* loop: one with room for it, one without
FillBounds ==
    (((-1)..MaxFillWords) \X ((-1)..MaxFillWords))
    \cup {<<SecondPassMin, SecondPassMin>>, <<SecondPassMin, SecondPassMin - 1>>}

\* inputs with no, one, two and three tokens
FillInputs == {<<>>, <<"a">>, <<"a", " ", "a">>, <<"a", " ", "a", " ", "a">>}

\* `words = sanitized.split()`
SanitizedWords(text) == PySplit(_normalize_whitespace(_strip_forbidden(text)))

\* `if not words: words = [...]`
WordsOrDefault(tokens) == IF tokens = <<>> THEN DefaultWords ELSE tokens

\* `if len(words) > word_max: words = words[:word_max]`
Truncated(tokens, hi) == IF Len(tokens) > hi THEN PyPrefix(tokens, hi) ELSE tokens

\* lines 100-109: sanitize, split, default words, truncate; then the
\* `while` test
FillStart ==
    /\ pstep = "input"
    /\ fillWords' = Truncated(WordsOrDefault(SanitizedWords(original)), wordMax)
    /\ fillToken' = 0
    /\ pstep' = "while"
    /\ UNCHANGED <<cfgVars, original, verdict, fallbackOut, normVars, reqVars>>

\* `while len(words) < settings.llm_response_word_min:`
WhileTest ==
    /\ pstep = "while"
    /\ IF Len(fillWords) < wordMin
       THEN pstep' = "for" /\ fillToken' = 1
       ELSE pstep' = "join" /\ fillToken' = 0
    /\ UNCHANGED <<cfgVars, original, verdict, fallbackOut, normVars,
                   fillWords, reqVars>>

\* one turn of `for token in filler:`: the break at the maximum, or the
\* append; the loop ends after the last token
ForToken ==
    /\ pstep = "for"
    /\ IF fillToken > Len(filler) \/ Len(fillWords) >= wordMax
       THEN /\ pstep' = "after_for"
            /\ UNCHANGED <<fillWords, fillToken>>
       ELSE /\ fillWords' = Append(fillWords, filler[fillToken])
            /\ fillToken' = fillToken + 1
            /\ UNCHANGED pstep
    /\ UNCHANGED <<cfgVars, original, verdict, fallbackOut, normVars, reqVars>>

\* `if len(words) >= settings.llm_response_word_min: break`, else back to
\* the `while` test
AfterFor ==
    /\ pstep = "after_for"
    /\ pstep' = IF Len(fillWords) >= wordMin THEN "join" ELSE "while"
    /\ fillToken' = 0
    /\ UNCHANGED <<cfgVars, original, verdict, fallbackOut, normVars,
                   fillWords, reqVars>>

\* lines 119-122: join, truncate, terminal period, return
FillReturn ==
    /\ pstep = "join"
    /\ LET fb == PyJoin(PyPrefix(fillWords, wordMax))
       IN  fallbackOut' = IF ~EndsWithTerminal(fb) THEN fb \o <<".">> ELSE fb
    /\ pstep' = "returned"
    /\ UNCHANGED <<cfgVars, original, verdict, normVars, fillVars, reqVars>>

InitFill ==
    /\ callerFrames = DirectFrames
    /\ base_url = RStripSlash(DefaultBaseUrl)
    /\ \E b \in FillBounds : wordMin = b[1] /\ wordMax = b[2]
    /\ retryAttempts = 0
    /\ systemPrompt = <<>>
    /\ original \in FillInputs
    /\ pstep = "input"
    /\ verdict = NoVerdict
    /\ fallbackOut = Unbound
    /\ IdleNormalizer
    /\ IdleFill
    /\ IdleRequest

NextFill == FillStart \/ WhileTest \/ ForToken \/ AfterFor \/ FillReturn

SpecFill == InitFill /\ [][NextFill]_vars

\* the function, once called, keeps executing
SpecFillFair == SpecFill /\ WF_vars(NextFill)

\* C23: the fallback generator terminates on every input for every
\* configured pair of word bounds.
C23_FallbackTerminates == <>(pstep = "returned")

\* ------------------------------------------------------------------------
\* Claims about the validator and the fallback generator
\* ------------------------------------------------------------------------

\* C1: for every input text the output of _apply_fallback passes
\* _validate_response (non-empty, no forbidden character, letter-run word
\* count within [word_min, word_max]).
C1_FallbackPassesValidation ==
    pstep = "fallback" => _validate_response(fallbackOut).ok

\* what the claims call the letter-run word count of a text: the number of
\* positions at which a run of ASCII letters ends
LetterRuns(t) ==
    Cardinality({i \in 1..Len(t) :
                    /\ t[i] \in Letters
                    /\ (i = Len(t) \/ t[i + 1] \notin Letters)})

BlankText(t) == \A i \in 1..Len(t) : t[i] \in Whitespace
HasForbidden(t) == \E i \in 1..Len(t) : t[i] \in _FORBIDDEN_CHARS

\* the claim's reference validator: rules in order, first failure wins
ReferenceVerdict(t) ==
    CASE BlankText(t) -> [ok |-> FALSE, reason |-> ReasonEmpty]
      [] ~BlankText(t) /\ HasForbidden(t) -> [ok |-> FALSE, reason |-> ReasonForbidden]
      [] ~BlankText(t) /\ ~HasForbidden(t) /\ LetterRuns(t) < wordMin ->
            [ok |-> FALSE, reason |-> ReasonTooFew(LetterRuns(t))]
      [] ~BlankText(t) /\ ~HasForbidden(t) /\ LetterRuns(t) >= wordMin
            /\ LetterRuns(t) > wordMax ->
            [ok |-> FALSE, reason |-> ReasonTooMany(LetterRuns(t))]
      [] OTHER -> [ok |-> TRUE, reason |-> <<>>]

\* C6: _validate_response equals the reference that checks, in order, empty
\* after trimming, forbidden character, count below the minimum, count above
\* the maximum; it passes exactly when the text is non-empty, free of
\* forbidden characters and its letter-run count lies within [min, max].
C6_ValidateEqualsReference ==
    pstep = "validated" =>
        /\ verdict = ReferenceVerdict(original)
        /\ verdict.ok <=> /\ ~BlankText(original)
                          /\ ~HasForbidden(original)
                          /\ wordMin <= LetterRuns(original)
                          /\ LetterRuns(original) <= wordMax

\* a text that passes the first three rules and fails the last one
C6_Witness ==
    /\ pstep = "validated"
    /\ ~BlankText(original) /\ ~HasForbidden(original)
    /\ LetterRuns(original) > wordMax
    /\ verdict = [ok |-> FALSE, reason |-> ReasonTooMany(LetterRuns(original))]

\* C7 as stated: every text that contains a forbidden character (the
\* forbidden whitespace characters included) fails with the
\* forbidden-symbols reason.
C7_ForbiddenAlwaysReported ==
    (pstep = "validated" /\ HasForbidden(original)) =>
        verdict = [ok |-> FALSE, reason |-> ReasonForbidden]

\* C7 amended: every text that contains a forbidden character fails
\* validation, with the forbidden-symbols reason when the text is not empty
\* after trimming and with the empty reason when it is (a text made only of
\* whitespace, forbidden line breaks included).
C7_ForbiddenReportedUnlessBlank ==
    (pstep = "validated" /\ HasForbidden(original)) =>
        /\ ~verdict.ok
        /\ ~BlankText(original) => verdict.reason = ReasonForbidden
        /\ BlankText(original) => verdict.reason = ReasonEmpty

\* a non-blank text whose only forbidden character is a line break
C7_Witness ==
    /\ pstep = "validated"
    /\ ~BlankText(original)
    /\ \E i \in 1..Len(original) : original[i] = "\n"
    /\ \A i \in 1..Len(original) : original[i] \in _FORBIDDEN_CHARS => original[i] = "\n"
    /\ verdict.reason = ReasonForbidden

\* C8 as stated: every text whose letter-run word count is below the minimum
\* fails with the too-few-words reason, reporting that count.
C8_TooFewAlwaysReported ==
    (pstep = "validated" /\ LetterRuns(original) < wordMin) =>
        verdict = [ok |-> FALSE, reason |-> ReasonTooFew(LetterRuns(original))]

\* C8 amended: every text whose letter-run word count is below the minimum
\* fails validation; the reason is too-few-words, reporting that count, when
\* the text is not empty after trimming and holds no forbidden character
\* (the two earlier rules win otherwise).
C8_TooFewReportedAfterEarlierRules ==
    (pstep = "validated" /\ LetterRuns(original) < wordMin) =>
        /\ ~verdict.ok
        /\ (~BlankText(original) /\ ~HasForbidden(original)) =>
                verdict.reason = ReasonTooFew(LetterRuns(original))

\* a text of tokens without letters, and one with a letter run below the minimum
C8_Witness ==
    /\ pstep = "validated"
    /\ ~BlankText(original) /\ ~HasForbidden(original)
    /\ LetterRuns(original) = 1 /\ wordMin = 2
    /\ Len(PySplit(original)) >= 2
    /\ verdict.reason = ReasonTooFew(1)

\* C16: the fallback generator is idempotent: applied to its own output it
\* returns a text with the same words and the same word count, and that
\* text still passes validation (bounds 1 <= min <= max).
C16_FallbackIdempotent ==
    (pstep = "fallback" /\ 1 <= wordMin /\ wordMin <= wordMax)
    => /\ PySplit(_apply_fallback(fallbackOut)) = PySplit(fallbackOut)
       /\ _validate_response(_apply_fallback(fallbackOut)).ok

\* C24: for every input, the output of _apply_fallback contains no
\* character of the forbidden set (symbol glyphs, newline, carriage return,
\* tab).
C24_FallbackHasNoForbidden ==
    pstep = "fallback" => ~HasForbidden(fallbackOut)

\* an input with a forbidden symbol and a line break around a letter
C24_Witness ==
    /\ pstep = "fallback"
    /\ \E i, j, k \in 1..Len(original) :
          original[i] = "-" /\ original[j] = "\n" /\ original[k] = "a"
    /\ \E i \in 1..Len(fallbackOut) : fallbackOut[i] = "a"

IsTextPrefix(p, q) == Len(p) <= Len(q) /\ SubSeq(q, 1, Len(p)) = p

\* the tokens of the sanitized input that fit under the maximum
SurvivingWords(text) == PyPrefix(SanitizedWords(text), wordMax)

\* C25: with bounds 1 <= min <= max, for every input the output of
\* _apply_fallback consists of between min and max whitespace-separated
\* tokens joined by single spaces, begins with the first tokens of the
\* sanitized input in their order when any survive, and ends with '.', '!'
\* or '?'.
C25_FallbackShape ==
    (pstep = "fallback" /\ 1 <= wordMin /\ wordMin <= wordMax)
    => /\ Len(PySplit(fallbackOut)) >= wordMin
       /\ Len(PySplit(fallbackOut)) <= wordMax
       /\ fallbackOut = PyJoin(PySplit(fallbackOut))
       /\ IsTextPrefix(PyJoin(SurvivingWords(original)), fallbackOut)
       /\ EndsWithTerminal(fallbackOut)

\* more input tokens than the maximum: the first ones are kept
C25_Witness ==
    /\ pstep = "fallback"
    /\ wordMax = 2
    /\ Len(SanitizedWords(original)) = 3
    /\ Len(PySplit(fallbackOut)) = 2

\* ------------------------------------------------------------------------
\* services/llm.py: what one call of LLMService.chat can answer
\* ------------------------------------------------------------------------

RECURSIVE WordsText(_)
\* n one-letter words separated by single spaces
WordsText(n) ==
    IF n = 0 THEN <<>>
    ELSE IF n = 1 THEN <<"a">>
    ELSE <<"a", " ">> \o WordsText(n - 1)

\* the values json.loads returns and an upstream body holds
JStr(t) == [kind |-> "str", val |-> t]
\* a number keeps its literal; int or float by the literal's shape
JNum(lit) == [kind |-> "num", val |-> lit]
JBool(b) == [kind |-> "bool", val |-> b]
JNull == [kind |-> "null", val |-> <<>>]
JList(items) == [kind |-> "list", val |-> items]
\* an object: its members <<key, value>> in source order
JDict(pairs) == [kind |-> "dict", val |-> pairs]
JError == [kind |-> "error", val |-> <<>>]
\* json.loads ends in an exception that is no JSONDecodeError
JRaised(e) == [kind |-> "raised", val |-> <<e>>]

\* One reply text of each kind the orchestrator can meet: 0 .. word_max + 1
\* words in normal form; blank; blank with a line break; a token without
\* letters; words with surplus whitespace; a word followed by a line break;
\* a token without letters before a word; a word with a digit inside; a
\* word that ends in a letter outside A-Z.
ReplyTexts ==
    {WordsText(n) : n \in 0..(MaxWordMax + 1)}
    \cup {<<" ">>, <<"\n">>, <<"1">>, <<" ", "a">>,
          <<" ", "a", " ", " ", "a">>, <<"a", "\n">>, <<"1", " ", "a">>,
          <<"a", "1", "a">>, <<"c", "a", "f", "U+00E9">>}

\* a message content of the upstream body that is truthy and no string: a
\* number, true, a list of parts, one part
NonTextContents ==
    {JNum(<<"5">>), JBool(TRUE), JList(<<JStr(<<"a">>)>>),
     JDict(<<<<<<"t", "y", "p", "e">>, JStr(<<"t", "e", "x", "t">>)>>,
             <<<<"t", "e", "x", "t">>, JStr(<<"a">>)>>>>)}

\* `content = ((choice.get("message") or {}).get("content")) or ""`: the
\* first choice's message content as the body holds it, a string or not;
\* "" when it is absent, null or another falsy value
Replies == {JStr(t) : t \in ReplyTexts} \cup NonTextContents

\* the object the name `content` is bound to: a string as its text
Bound(c) == IF c.kind = "str" THEN c.val ELSE c

\* `parsed`: the decoded body of the k-th answer
RawOf(k) == [id |-> k, model |-> Some(<<"m", "1">>), finish_reason |-> "stop"]

\* `model` of an upstream body: a name, "", or none
UpstreamModels == {Some(<<"m", "1">>), Some(<<>>), Nothing}

\* the decoded body of the k-th answer, naming the model m
RawWith(k, m) == [id |-> k, model |-> m, finish_reason |-> "stop"]

\* a failure raised by client.post (transport), by the status check
\* (RuntimeError) or by response.json()
ClientErrors == {"transport", "status", "body"}

ReplyOutcome(c, raw) == [kind |-> "reply", content |-> c, raw |-> raw]
\* the client returned a content that is no string
ValueOutcome(c, raw) == [kind |-> "value", content |-> c, raw |-> raw]
\* what the client call returned
Outcome(c, raw) ==
    IF c.kind = "str" THEN ReplyOutcome(c.val, raw) ELSE ValueOutcome(c, raw)
ErrorOutcome(e) == [kind |-> "error", error |-> e]

\* ------------------------------------------------------------------------
\* chat.py: _with_system_prompt and _generate_response_with_constraints
\* ------------------------------------------------------------------------

ChatMessage(role, text) == [role |-> role, content |-> text]

DefaultSystemPrompt == <<"settings.llm_system_prompt">>

_with_system_prompt(msgs) ==
    IF systemPrompt = <<>> THEN msgs
    ELSE IF \E i \in 1..Len(msgs) : msgs[i].role = "system" THEN msgs
    ELSE <<ChatMessage("system", systemPrompt)>> \o msgs

\* breaking one attempt early
ExhaustedEarly(a) == a + 1 >= retryAttempts

\* `if attempt >= settings.llm_response_retry_attempts: break`
Exhausted(a) == a >= retryAttempts

\* the reply handed back as it came
SanitizedRaw(reply) == reply

\* the text returned for a valid reply
Sanitized(reply) ==
    LET normalized == _normalize_whitespace(reply)
    IN  _normalize_whitespace(_strip_forbidden(normalized))

\* the failed reply as it came, and the instruction
RetryTurnsRaw(reply, reason) ==
    <<ChatMessage("assistant", reply),
      ChatMessage("user", _build_retry_instruction(reason))>>

\* the two turns appended before the next attempt
RetryTurns(reply, reason) ==
    <<ChatMessage("assistant", _normalize_whitespace(reply)),
      ChatMessage("user", _build_retry_instruction(reason))>>

\* the metadata of the first call is kept
LastRawOfFirstCall(previous, latest) == IF previous = EmptyRaw THEN latest ELSE previous

\* `content, last_raw = await llm_service.chat(...)`: every call rebinds
\* last_raw to its own raw response
LastRaw(previous, latest) == latest

\* the working list and the caller's list are one list
CallersMessagesShared(given, working) == working

\* `attempt_messages = list(messages)` copies, and each retry binds
\* attempt_messages to a new list: the caller's list stays as given
CallersMessages(given, working) == given

\* the fallback of the reply before the last one
FallbackOfStale(reply) == _apply_fallback(<<>>)

\* `_apply_fallback(content if "content" in locals() else "")`
FallbackOf(reply) == _apply_fallback(IF reply = Unbound THEN <<>> ELSE reply)

\* ------------------------------------------------------------------------
\* json.dumps of a string (ensure_ascii)
\* ------------------------------------------------------------------------

\* \uXXXX, four lower-case hexadecimal digits
EscapeU(cp) == <<"\\", "u">> \o NatToHex(cp, 4, HexDigitsLower)

\* the escape of one character (ESCAPE_ASCII of json.encoder): printable
\* ASCII stays, a character above U+FFFF becomes its surrogate pair
JsonEscape(ch) ==
    CASE ch = "\"" -> <<"\\", "\"">>
      [] ch = "\\" -> <<"\\", "\\">>
      [] ch = "\n" -> <<"\\", "n">>
      [] ch = "\r" -> <<"\\", "r">>
      [] ch = "\t" -> <<"\\", "t">>
      [] ch = "\f" -> <<"\\", "f">>
      [] ch \in PrintableAscii -> <<ch>>
      [] CodePoint(ch) = 8 -> <<"\\", "b">>
      [] CodePoint(ch) < 65536 -> EscapeU(CodePoint(ch))
      [] OTHER -> EscapeU(55296 + ((CodePoint(ch) - 65536) \div 1024))
                  \o EscapeU(56320 + ((CodePoint(ch) - 65536) % 1024))

RECURSIVE JsonEscapeRange(_, _, _)
\* the escapes of t[lo..hi], one after the other
JsonEscapeRange(t, lo, hi) ==
    IF lo > hi THEN <<>>
    ELSE IF lo = hi THEN JsonEscape(t[lo])
    ELSE JsonEscapeRange(t, lo, (lo + hi) \div 2)
         \o JsonEscapeRange(t, ((lo + hi) \div 2) + 1, hi)

JsonEscapeAll(t) == JsonEscapeRange(t, 1, Len(t))

JsonString(t) == <<"\"">> \o JsonEscapeAll(t) \o <<"\"">>

\* json.dumps of raw.get("model"): null for None
JsonOptional(v) == IF v = Nothing THEN <<"n", "u", "l", "l">> ELSE JsonString(v[1])

\* ------------------------------------------------------------------------
\* chat.py: the /chat and /chat/stream handlers
\* ------------------------------------------------------------------------

Roles == {"system", "user", "assistant"}

Hi == <<"h", "i">>

Be == <<"b", "e">>

\* request.messages: any list of messages passes the schema
Conversations ==
    {<<>>,
     <<ChatMessage("user", Hi)>>,
     <<ChatMessage("system", Be), ChatMessage("user", Hi)>>,
     <<ChatMessage("user", Hi), ChatMessage("system", Be)>>,
     <<ChatMessage("system", Be), ChatMessage("system", Hi), ChatMessage("user", Hi)>>}

ChatResponse(text, raw) ==
    [content |-> text, model |-> raw.model, finish_reason |-> raw.finish_reason]

\* `payload`, line 210
StreamPayload(text, raw) == [content |-> text, model |-> raw.model]

\* f"data: {json.dumps(payload)}\n\n"
ContentFrame(payload) ==
    <<"data: ", "{\"choices\": [{\"delta\": {\"content\": ">>
    \o JsonString(payload.content)
    \o <<"}}], \"model\": ">> \o JsonOptional(payload.model) \o <<"}", "\n\n">>

DoneFrame == <<"data: [DONE]\n\n">>

\* the terminal frame first
EventsDoneFirst(payload) == <<DoneFrame, ContentFrame(payload)>>

\* what event_generator yields, in order
Events(payload) == <<ContentFrame(payload), DoneFrame>>

ChatEndpoints == {"chat", "chat_stream"}

\* the pipeline returns (text, raw) and the handler runs to its end
PipelineReturns(text, raw) ==
    /\ result' = [kind |-> "returned", text |-> text, raw |-> raw]
    /\ IF endpoint = "chat"
       THEN /\ response' = [kind |-> "ok", body |-> ChatResponse(text, raw)]
            /\ pc' = "done"
       ELSE /\ response' = [kind |-> "stream", payload |-> StreamPayload(text, raw)]
            /\ pc' = "streaming"

\* the handler is entered and runs to the first client call
ChatStart ==
    /\ pc = "start"
    /\ endpoint \in ChatEndpoints
    /\ LET prepared == _with_system_prompt(request.messages)
       IN  /\ messages' = prepared
           /\ attempt_messages' = prepared
           /\ IF retryAttempts + 1 <= 0
              THEN /\ PipelineReturns(FallbackOf(content), last_raw)
                   /\ UNCHANGED sent
              ELSE /\ sent' = Append(sent, prepared)
                   /\ pc' = "await_llm"
                   /\ UNCHANGED <<result, response>>
    /\ UNCHANGED <<cfgVars, pureVars, endpoint, request, attempt, content,
                   last_raw, replies, frames>>

\* `await llm_service.chat(...)` answers with a reply; the loop runs on to
\* the next client call or to the end of the handler
\* the reply is a string: it is validated, then returned, retried or
\* replaced by the fallback
TextValidated(c, raw) ==
    IF _validate_response(c).ok
    THEN /\ PipelineReturns(Sanitized(c), raw)
         /\ UNCHANGED <<attempt, attempt_messages, messages, sent>>
    ELSE IF Exhausted(attempt)
    THEN /\ PipelineReturns(FallbackOf(c), raw)
         /\ UNCHANGED <<attempt, attempt_messages, messages, sent>>
    ELSE /\ attempt_messages' =
               attempt_messages \o RetryTurns(c, _validate_response(c).reason)
         /\ messages' = CallersMessages(messages, attempt_messages')
         /\ attempt' = attempt + 1
         /\ sent' = Append(sent, attempt_messages')
         /\ UNCHANGED <<pc, result, response>>

\* `content.strip()` of _validate_response on a content that is no string
\* raises AttributeError, which leaves the pipeline and the handler
ValueRejected ==
    /\ result' = [kind |-> "raised", error |-> "AttributeError"]
    /\ response' = [kind |-> "failure", error |-> "AttributeError"]
    /\ pc' = "failed"
    /\ UNCHANGED <<attempt, attempt_messages, messages, sent>>

AttemptReturns(c) ==
    /\ pc = "await_llm"
    /\ endpoint \in ChatEndpoints
    /\ replies' = Append(replies, Outcome(c, RawOf(Len(sent))))
    /\ content' = Bound(c)
    /\ last_raw' = LastRaw(last_raw, RawOf(Len(sent)))
    /\ IF c.kind = "str"
       THEN TextValidated(c.val, LastRaw(last_raw, RawOf(Len(sent))))
       ELSE ValueRejected
    /\ UNCHANGED <<cfgVars, pureVars, endpoint, request, frames>>

\* the failure is retried like an invalid reply
RaisedRetried(e) ==
    /\ replies' = Append(replies, ErrorOutcome(e))
    /\ IF Exhausted(attempt)
       THEN /\ PipelineReturns(FallbackOf(content), last_raw)
            /\ UNCHANGED <<attempt, sent>>
       ELSE /\ attempt' = attempt + 1
            /\ sent' = Append(sent, attempt_messages)
            /\ UNCHANGED <<pc, result, response>>

\* nothing between the client call and the caller catches the failure
RaisedPropagates(e) ==
    /\ replies' = Append(replies, ErrorOutcome(e))
    /\ result' = [kind |-> "raised", error |-> e]
    /\ response' = [kind |-> "failure", error |-> e]
    /\ pc' = "failed"
    /\ UNCHANGED <<attempt, sent>>

\* `await llm_service.chat(...)` raises
AttemptRaises(e) ==
    /\ pc = "await_llm"
    /\ endpoint \in ChatEndpoints
    /\ RaisedPropagates(e)
    /\ UNCHANGED <<cfgVars, pureVars, endpoint, request, messages,
                   attempt_messages, content, last_raw, frames>>

\* the consumer asks for a frame: event_generator runs to its next yield
\* and is suspended there
StreamYield ==
    /\ pc = "streaming"
    /\ endpoint = "chat_stream"
    /\ LET events == Events(response.payload)
       IN  /\ Len(frames) < Len(events)
           /\ frames' = Append(frames, events[Len(frames) + 1])
    /\ UNCHANGED pc
    /\ UNCHANGED <<cfgVars, pureVars, endpoint, request, messages,
                   attempt_messages, attempt, content, last_raw, sent, replies,
                   result, response>>

\* the consumer asks for a frame after data: [DONE]: event_generator runs
\* off its end
StreamEnds ==
    /\ pc = "streaming"
    /\ endpoint = "chat_stream"
    /\ Len(frames) = Len(Events(response.payload))
    /\ pc' = "done"
    /\ UNCHANGED <<cfgVars, pureVars, endpoint, request, messages,
                   attempt_messages, attempt, content, last_raw, sent, replies,
                   result, response, frames>>

\* the consumer goes away: the generator, not yet started or suspended at
\* a yield, is closed there (GeneratorExit, which no except clause of
\* event_generator covers) and yields nothing more
RouterStreamClosed ==
    /\ pc = "streaming"
    /\ endpoint = "chat_stream"
    /\ pc' = "closed"
    /\ UNCHANGED <<cfgVars, pureVars, endpoint, request, messages,
                   attempt_messages, attempt, content, last_raw, sent, replies,
                   result, response, frames>>

\* asyncio.CancelledError is thrown into the generator suspended at one
\* of its yields: `except asyncio.CancelledError` logs it and raises it
\* again
RouterStreamCancelled ==
    /\ pc = "streaming"
    /\ endpoint = "chat_stream"
    /\ Len(frames) >= 1
    /\ pc' = "cancelled"
    /\ UNCHANGED <<cfgVars, pureVars, endpoint, request, messages,
                   attempt_messages, attempt, content, last_raw, sent, replies,
                   result, response, frames>>

\* ------------------------------------------------------------------------
\* main.py: the /chat handler of the application
\* ------------------------------------------------------------------------

\* the handler is entered and calls the client with the request's messages
MainChatStart ==
    /\ pc = "start"
    /\ endpoint = "main_chat"
    /\ sent' = Append(sent, request.messages)
    /\ pc' = "await_llm"
    /\ UNCHANGED <<cfgVars, pureVars, endpoint, request, messages,
                   attempt_messages, attempt, content, last_raw, replies,
                   result, response, frames>>

\* `await llm_service.chat(...)` answers: the reply is the response content
\* ChatResponse(content=...) rejects a content that is no string: the
\* schema's validation error leaves the handler
MainChatReturns(c) ==
    /\ pc = "await_llm"
    /\ endpoint = "main_chat"
    /\ LET raw == RawOf(Len(sent))
       IN  /\ replies' = Append(replies, Outcome(c, raw))
           /\ content' = Bound(c)
           /\ last_raw' = raw
           /\ IF c.kind = "str"
              THEN /\ response' = [kind |-> "ok", body |-> ChatResponse(c.val, raw)]
                   /\ pc' = "done"
              ELSE /\ response' = [kind |-> "failure", error |-> "ValidationError"]
                   /\ pc' = "failed"
    /\ UNCHANGED <<cfgVars, pureVars, endpoint, request, messages,
                   attempt_messages, attempt, sent, result, frames>>

\* `await llm_service.chat(...)` raises: nothing in the handler catches it
MainChatRaises(e) ==
    /\ pc = "await_llm"
    /\ endpoint = "main_chat"
    /\ replies' = Append(replies, ErrorOutcome(e))
    /\ response' = [kind |-> "failure", error |-> e]
    /\ pc' = "failed"
    /\ UNCHANGED <<cfgVars, pureVars, endpoint, request, messages,
                   attempt_messages, attempt, content, last_raw, sent,
                   result, frames>>

\* ------------------------------------------------------------------------
\* json.loads, as the task normalizers use it: the decoded value, or
\* JError for json.JSONDecodeError
\* ------------------------------------------------------------------------

JsonWs == {" ", "\t", "\n", "\r"}
Digits == {"0", "1", "2", "3", "4", "5", "6", "7", "8", "9"}
HexDigits == Digits \cup {"a", "b", "c", "d", "e", "f", "A", "B", "C", "D", "E", "F"}
\* characters a JSON string may not hold unescaped (code points below 0x20)
ControlChars == {CharOf(cp) : cp \in 0..31}

\* sys.get_int_max_str_digits(): int() of a longer digit string raises
\* ValueError
MaxStrDigits == 4300
\* sys.getrecursionlimit()
RecursionLimit == 1000

Parsed(v, i) == [ok |-> TRUE, val |-> v, pos |-> i]
NoParse == [ok |-> FALSE, val |-> JError, pos |-> 0]
Fails(e) == [ok |-> FALSE, val |-> JRaised(e), pos |-> 0]

At(t, i) == IF i >= 1 /\ i <= Len(t) THEN t[i] ELSE "<end>"

\* the first position from i on that holds no character of the set
SkipChars(t, i, set) ==
    IF At(t, i) \notin set THEN i
    ELSE SetMin({k \in (i + 1)..(Len(t) + 1) : At(t, k) \notin set})

SkipWs(t, i) == SkipChars(t, i, JsonWs)

SkipDigits(t, i) == SkipChars(t, i, Digits)

StartsWithAt(t, i, p) ==
    /\ i + Len(p) - 1 <= Len(t)
    /\ \A k \in 1..Len(p) : t[i + k - 1] = p[k]

\* NUMBER_RE: -?(0|[1-9]\d*)(\.\d+)?([eE][-+]?\d+)?
ParseNumber(t, i) ==
    LET s1 == IF At(t, i) = "-" THEN i + 1 ELSE i
        intEnd == IF At(t, s1) = "0" THEN s1 + 1
                  ELSE IF At(t, s1) \in Digits THEN SkipDigits(t, s1)
                  ELSE 0
        fracEnd == IF At(t, intEnd) = "." /\ At(t, intEnd + 1) \in Digits
                   THEN SkipDigits(t, intEnd + 1)
                   ELSE intEnd
        expAt == IF At(t, fracEnd + 1) \in {"-", "+"} THEN fracEnd + 2 ELSE fracEnd + 1
        expEnd == IF At(t, fracEnd) \in {"e", "E"} /\ At(t, expAt) \in Digits
                  THEN SkipDigits(t, expAt)
                  ELSE fracEnd
    IN  IF intEnd = 0 THEN NoParse
        ELSE IF expEnd = intEnd /\ intEnd - s1 > MaxStrDigits THEN Fails("ValueError")
        ELSE Parsed(JNum(SubSeq(t, i, expEnd - 1)), expEnd)

\* four hexadecimal digits from position i on, and their value
HexAt(t, i) == \A k \in 0..3 : At(t, i + k) \in HexDigits
EscapeAt(t, i) == HexToNat(SubSeq(t, i, i + 3))

IsHighSurrogate(cp) == cp >= 55296 /\ cp <= 56319
IsLowSurrogate(cp) == cp >= 56320 /\ cp <= 57343

\* a \uXXXX escape of a low surrogate starts at position i
LowEscapeAt(t, i) ==
    /\ At(t, i) = "\\" /\ At(t, i + 1) = "u"
    /\ HexAt(t, i + 2)
    /\ IsLowSurrogate(EscapeAt(t, i + 2))

\* Py_UNICODE_JOIN_SURROGATES
JoinSurrogates(hi, lo) == 65536 + (hi - 55296) * 1024 + (lo - 56320)

Unescape(ch) ==
    CASE ch = "b" -> "U+0008"
      [] ch = "f" -> "\f"
      [] ch = "n" -> "\n"
      [] ch = "r" -> "\r"
      [] ch = "t" -> "\t"
      [] OTHER -> ch

RECURSIVE ScanString(_, _, _)
\* the characters of a string literal from position i on, acc so far
ScanString(t, i, acc) ==
    LET ch == At(t, i)
    IN  IF i > Len(t) THEN NoParse
        ELSE IF ch = "\"" THEN Parsed(JStr(acc), i + 1)
        ELSE IF ch \in ControlChars THEN NoParse
        ELSE IF ch = "\\"
        THEN IF At(t, i + 1) \in {"\"", "\\", "/", "b", "f", "n", "r", "t"}
             THEN ScanString(t, i + 2, Append(acc, Unescape(t[i + 1])))
             ELSE IF At(t, i + 1) = "u" /\ HexAt(t, i + 2)
             THEN IF IsHighSurrogate(EscapeAt(t, i + 2)) /\ LowEscapeAt(t, i + 6)
                  THEN ScanString(t, i + 12,
                          Append(acc, CharOf(JoinSurrogates(EscapeAt(t, i + 2),
                                                            EscapeAt(t, i + 8)))))
                  ELSE ScanString(t, i + 6, Append(acc, CharOf(EscapeAt(t, i + 2))))
             ELSE NoParse
        ELSE ScanString(t, i + 1, Append(acc, ch))

ParseString(t, i) == IF At(t, i) = "\"" THEN ScanString(t, i + 1, <<>>) ELSE NoParse

RECURSIVE ScanOnce(_, _, _)
RECURSIVE ParseItems(_, _, _, _)
RECURSIVE ParseMembers(_, _, _, _)

\* after "[" or ",": a value, then "," or "]"
ParseItems(t, i, acc, depth) ==
    LET v == ScanOnce(t, i, depth)
        j == SkipWs(t, v.pos)
    IN  IF ~v.ok THEN v
        ELSE IF At(t, j) = "]" THEN Parsed(JList(Append(acc, v.val)), j + 1)
        ELSE IF At(t, j) = ","
        THEN ParseItems(t, SkipWs(t, j + 1), Append(acc, v.val), depth)
        ELSE NoParse

\* after "{" or ",": a string key, ":", a value, then "," or "}"
ParseMembers(t, i, acc, depth) ==
    LET k == ParseString(t, i)
        c == SkipWs(t, k.pos)
        v == ScanOnce(t, SkipWs(t, c + 1), depth)
        j == SkipWs(t, v.pos)
    IN  IF ~k.ok \/ At(t, c) # ":" THEN NoParse
        ELSE IF ~v.ok THEN v
        ELSE IF At(t, j) = "}"
        THEN Parsed(JDict(Append(acc, <<k.val.val, v.val>>)), j + 1)
        ELSE IF At(t, j) = ","
        THEN ParseMembers(t, SkipWs(t, j + 1), Append(acc, <<k.val.val, v.val>>), depth)
        ELSE NoParse

\* scan_once: the value at position i, with `depth` levels of the
\* interpreter's recursion budget in use: the caller's frames and one level
\* for each open object or array; entering an object or array when the
\* budget is used up raises RecursionError
ScanOnce(t, i, depth) ==
    LET ch == At(t, i)
    IN  IF ch = "\"" THEN ParseString(t, i)
        ELSE IF ch \in {"{", "["} /\ depth + 1 >= RecursionLimit
        THEN Fails("RecursionError")
        ELSE IF ch = "{"
        THEN IF At(t, SkipWs(t, i + 1)) = "}"
             THEN Parsed(JDict(<<>>), SkipWs(t, i + 1) + 1)
             ELSE ParseMembers(t, SkipWs(t, i + 1), <<>>, depth + 1)
        ELSE IF ch = "["
        THEN IF At(t, SkipWs(t, i + 1)) = "]"
             THEN Parsed(JList(<<>>), SkipWs(t, i + 1) + 1)
             ELSE ParseItems(t, SkipWs(t, i + 1), <<>>, depth + 1)
        ELSE IF StartsWithAt(t, i, <<"n", "u", "l", "l">>) THEN Parsed(JNull, i + 4)
        ELSE IF StartsWithAt(t, i, <<"t", "r", "u", "e">>) THEN Parsed(JBool(TRUE), i + 4)
        ELSE IF StartsWithAt(t, i, <<"f", "a", "l", "s", "e">>) THEN Parsed(JBool(FALSE), i + 5)
        ELSE IF StartsWithAt(t, i, <<"N", "a", "N">>)
        THEN Parsed(JNum(<<"n", "a", "n">>), i + 3)
        ELSE IF StartsWithAt(t, i, <<"I", "n", "f", "i", "n", "i", "t", "y">>)
        THEN Parsed(JNum(<<"i", "n", "f">>), i + 8)
        ELSE IF StartsWithAt(t, i, <<"-", "I", "n", "f", "i", "n", "i", "t", "y">>)
        THEN Parsed(JNum(<<"-", "i", "n", "f">>), i + 9)
        ELSE ParseNumber(t, i)

\* JSONDecoder.raw_decode from position i, at the caller's stack depth
ParseValue(t, i) == ScanOnce(t, i, callerFrames)

\* the decoder rejects every text
JsonNeverLoads(t) == JError

\* json.loads(text): leading whitespace, one value, trailing whitespace
json_loads(t) ==
    LET v == ParseValue(t, SkipWs(t, 1))
    IN  IF ~v.ok THEN v.val
        ELSE IF SkipWs(t, v.pos) = Len(t) + 1 THEN v.val
        ELSE JError

\* ------------------------------------------------------------------------
\* The values json.loads returns, as the normalizers use them: truth
\* value, str(), dict.get
\* ------------------------------------------------------------------------


PyLStrip(t) ==
    LET keep == {i \in 1..Len(t) : t[i] \notin Whitespace}
    IN  IF keep = {} THEN <<>> ELSE SubSeq(t, SetMin(keep), Len(t))

StartsWith(t, p) == StartsWithAt(t, 1, p)

\* str.find / str.rfind of one character, 1-based; 0 where the code gets -1
PyFind(t, ch) ==
    LET at == {i \in 1..Len(t) : t[i] = ch}
    IN  IF at = {} THEN 0 ELSE SetMin(at)

PyRFind(t, ch) ==
    LET at == {i \in 1..Len(t) : t[i] = ch}
    IN  IF at = {} THEN 0 ELSE SetMax(at)

\* where sep occurs in t at or after position from
SepHits(t, sep, from) ==
    {i \in from..(Len(t) - Len(sep) + 1) : StartsWithAt(t, i, sep)}

RECURSIVE SplitOnFrom(_, _, _, _)
\* the pieces of t from position from on, hits the occurrences of sep there
SplitOnFrom(t, sep, from, hits) ==
    IF hits = {} THEN <<SubSeq(t, from, Len(t))>>
    ELSE <<SubSeq(t, from, SetMin(hits) - 1)>>
         \o SplitOnFrom(t, sep, SetMin(hits) + Len(sep),
                        {i \in hits : i >= SetMin(hits) + Len(sep)})

\* str.split(sep): the occurrences are taken left to right, not overlapping
PySplitOn(t, sep) == SplitOnFrom(t, sep, 1, SepHits(t, sep, 1))

RECURSIVE Concat(_)
Concat(parts) == IF parts = <<>> THEN <<>> ELSE Head(parts) \o Concat(Tail(parts))

RECURSIVE JoinWith(_, _)
\* sep.join(parts)
JoinWith(parts, sep) ==
    IF parts = <<>> THEN <<>>
    ELSE IF Len(parts) = 1 THEN parts[1]
    ELSE parts[1] \o sep \o JoinWith(Tail(parts), sep)

DropLeadingZeros(d) ==
    IF \A i \in 1..Len(d) : d[i] = "0" THEN <<>>
    ELSE SubSeq(d, SetMin({i \in 1..Len(d) : d[i] # "0"}), Len(d))

DropTrailingZeros(d) ==
    IF \A i \in 1..Len(d) : d[i] = "0" THEN <<>>
    ELSE SubSeq(d, 1, SetMax({i \in 1..Len(d) : d[i] # "0"}))

RECURSIVE Zeros(_)
Zeros(n) == IF n <= 0 THEN <<>> ELSE <<"0">> \o Zeros(n - 1)

RECURSIVE DigitsToNat(_)
DigitsToNat(d) ==
    IF d = <<>> THEN 0 ELSE 10 * DigitsToNat(SubSeq(d, 1, Len(d) - 1)) + HexVal(d[Len(d)])

RECURSIVE NatToDigits(_)
NatToDigits(n) ==
    IF n < 10 THEN <<ToString(n)>> ELSE NatToDigits(n \div 10) \o <<ToString(n % 10)>>

IsFloatLiteral(lit) == \E i \in 1..Len(lit) : lit[i] \in {".", "e", "E"}
IsSpecialFloat(lit) == lit \in {<<"n", "a", "n">>, <<"i", "n", "f">>, <<"-", "i", "n", "f">>}

\* the parts of a float literal: its sign, the significant digits of its
\* mantissa, the position of the decimal point in them (mantissa =
\* 0.d1d2... * 10^point) and its exponent, of any length, eDig without
\* leading zeros, negative when eNeg. `all` holds the digits of the
\* mantissa, intLen of them before the point.
FloatFromDigits(neg, all, intLen, eNeg, eDig) ==
    [neg |-> neg,
     digits |-> DropTrailingZeros(DropLeadingZeros(all)),
     point |-> intLen - (Len(all) - Len(DropLeadingZeros(all))),
     eNeg |-> eNeg,
     eDig |-> eDig]

FloatFromMantissa(neg, mant, dot, expo) ==
    FloatFromDigits(neg,
        SubSeq(mant, 1, dot - 1) \o SubSeq(mant, dot + 1, Len(mant)),
        dot - 1,
        expo # <<>> /\ expo[1] = "-",
        DropLeadingZeros(IF expo # <<>> /\ expo[1] \in {"-", "+"} THEN Tail(expo) ELSE expo))

FloatFromBody(neg, body, ePos) ==
    FloatFromMantissa(neg,
        SubSeq(body, 1, ePos - 1),
        SetMin({i \in 1..(ePos - 1) : body[i] = "."} \cup {ePos}),
        SubSeq(body, ePos + 1, Len(body)))

FirstExponentMark(body) ==
    SetMin({i \in 1..Len(body) : body[i] \in {"e", "E"}} \cup {Len(body) + 1})

FloatUnsigned(neg, body) == FloatFromBody(neg, body, FirstExponentMark(body))

\* ------------------------------------------------------------------------
\* float(literal) and repr(float), exactly: IEEE 754 binary64, round to
\* nearest, ties to even (PyOS_string_to_double), and the shortest digits
\* that denote the same float, the nearest of them (float_repr).
\* A natural number of any size is the sequence of its decimal digits
\* 0..9, most significant first, without a leading zero; zero is <<>>.
\* ------------------------------------------------------------------------

DigitChars == <<"0", "1", "2", "3", "4", "5", "6", "7", "8", "9">>

ToNat(d) == [i \in 1..Len(d) |-> HexVal(d[i])]
ToDigitChars(n) == [i \in 1..Len(n) |-> DigitChars[n[i] + 1]]

ZeroDigits(k) == [i \in 1..k |-> 0]

Canon(n) ==
    IF \A i \in 1..Len(n) : n[i] = 0 THEN <<>>
    ELSE SubSeq(n, SetMin({i \in 1..Len(n) : n[i] # 0}), Len(n))

StripZeros(n) ==
    IF \A i \in 1..Len(n) : n[i] = 0 THEN <<>>
    ELSE SubSeq(n, 1, SetMax({i \in 1..Len(n) : n[i] # 0}))

\* 2 * n: the carry into a digit is 1 when the next digit is 5 or more
Double(n) ==
    (IF n # <<>> /\ n[1] >= 5 THEN <<1>> ELSE <<>>)
    \o [i \in 1..Len(n) |->
            (2 * n[i] + (IF i < Len(n) /\ n[i + 1] >= 5 THEN 1 ELSE 0)) % 10]

\* n \div 2
Half(n) ==
    Canon([i \in 1..Len(n) |->
            (n[i] + (IF i > 1 /\ n[i - 1] % 2 = 1 THEN 10 ELSE 0)) \div 2])

IsOdd(n) == n # <<>> /\ n[Len(n)] % 2 = 1

\* 5 * n
TimesFive(n) == Half(n \o <<0>>)

\* n + 1
PlusOne(n) ==
    IF \A i \in 1..Len(n) : n[i] = 9 THEN <<1>> \o ZeroDigits(Len(n))
    ELSE [i \in 1..Len(n) |->
            IF i < SetMax({k \in 1..Len(n) : n[k] # 9}) THEN n[i]
            ELSE IF i = SetMax({k \in 1..Len(n) : n[k] # 9}) THEN n[i] + 1
            ELSE 0]

\* -1, 0 or 1 as a is below, equal to or above b; for two numbers, or two
\* digit strings of one length
Compare(a, b) ==
    IF Len(a) < Len(b) THEN 0 - 1
    ELSE IF Len(a) > Len(b) THEN 1
    ELSE IF a = b THEN 0
    ELSE IF a[SetMin({i \in 1..Len(a) : a[i] # b[i]})]
            < b[SetMin({i \in 1..Len(a) : a[i] # b[i]})] THEN 0 - 1
    ELSE 1

\* the digits of a - p, p of the length of a: a digit borrows when the
\* digits below it are less in a than in p
MinusPadded(a, p, differ) ==
    Canon([i \in 1..Len(a) |->
            (10 + a[i] - p[i]
                - (IF {j \in differ : j > i} # {}
                      /\ a[SetMin({j \in differ : j > i})] < p[SetMin({j \in differ : j > i})]
                   THEN 1 ELSE 0)) % 10])

\* a - b, for a >= b
Minus(a, b) ==
    MinusPadded(a, ZeroDigits(Len(a) - Len(b)) \o b,
                {j \in 1..Len(a) : a[j] # (ZeroDigits(Len(a) - Len(b)) \o b)[j]})

RECURSIVE TimesPowerOfTwo(_, _)
\* n * 2^k, by halves of k
TimesPowerOfTwo(n, k) ==
    IF Len(n) >= 0 /\ k <= 0 THEN n
    ELSE IF k = 1 THEN Double(n)
    ELSE TimesPowerOfTwo(TimesPowerOfTwo(n, k \div 2), k - (k \div 2))

RECURSIVE TimesPowerOfFive(_, _)
\* n * 5^k, by halves of k
TimesPowerOfFive(n, k) ==
    IF Len(n) >= 0 /\ k <= 0 THEN n
    ELSE IF k = 1 THEN TimesFive(n)
    ELSE TimesPowerOfFive(TimesPowerOfFive(n, k \div 2), k - (k \div 2))

\* one digit of a long division: r is below 10 * t; the digit is taken
\* from 8t, 4t, 2t and t in turn
TakeIf(st, t, weight) ==
    IF Compare(st.rem, t) >= 0
    THEN [digit |-> st.digit + weight, rem |-> Minus(st.rem, t)]
    ELSE st

DivideDigit(r, t) ==
    TakeIf(TakeIf(TakeIf(TakeIf([digit |-> 0, rem |-> r],
                                Double(Double(Double(t))), 8),
                         Double(Double(t)), 4),
                  Double(t), 2),
           t, 1)

RECURSIVE DivisionFrom(_, _, _, _)
\* the long division after the step st, with j + 1 digits to come; acc
\* holds the digits before st
DivisionFrom(st, m, j, acc) ==
    IF st.digit >= 0 /\ Len(acc) >= 0 /\ j < 0
    THEN [quot |-> Canon(Append(acc, st.digit)), rem |-> st.rem]
    ELSE DivisionFrom(DivideDigit(st.rem, m \o ZeroDigits(j)), m, j - 1,
                      Append(acc, st.digit))

\* the quotient and the remainder of r by m, for a quotient of at most
\* j + 1 digits
LongDivision(r, m, j) == DivisionFrom([digit |-> 0, rem |-> r], m, j, <<>>)

\* 2^52 and 2^53: a float holds 53 bits
TwoTo52 == <<4, 5, 0, 3, 5, 9, 9, 6, 2, 7, 3, 7, 0, 4, 9, 6>>
TwoTo53 == <<9, 0, 0, 7, 1, 9, 9, 2, 5, 4, 7, 4, 0, 9, 9, 2>>
\* the exponent of the least bit of the smallest and of the largest float
MinExponent == 0 - 1074
MaxExponent == 1024 - 53
\* a literal whose first digit stands beyond these powers of ten is
\* infinite, or zero, whatever its digits
MaxDecimalPoint == 309 + 1
MinDecimalPoint == 0 - 330

\* floor(log2(10^(decpt - 1))), within one
BinaryExponentNear(decpt) == ((decpt - 1) * 3321928) \div 1000000

\* num / den divided by 2^e
DividedByPowerOfTwo(num, den, e) ==
    IF e >= 0 THEN [num |-> num, den |-> TimesPowerOfTwo(den, e), exp |-> e]
    ELSE [num |-> TimesPowerOfTwo(num, 0 - e), den |-> den, exp |-> e]

RECURSIVE Normalized(_)
\* the same value with 1 <= num / den < 2
Normalized(f) ==
    IF Compare(f.num, f.den) < 0
    THEN Normalized([num |-> Double(f.num), den |-> f.den, exp |-> f.exp - 1])
    ELSE IF Compare(f.num, Double(f.den)) >= 0
    THEN Normalized([num |-> f.num, den |-> Double(f.den), exp |-> f.exp + 1])
    ELSE f

\* the exponent of the least bit of the float nearest to a value whose
\* leading bit has exponent e
LeastBit(e) == IF e - 52 < MinExponent THEN MinExponent ELSE e - 52

\* the value in units of its least bit: quotient and remainder
InUnits(f) ==
    IF f.exp - LeastBit(f.exp) >= 0
    THEN LongDivision(TimesPowerOfTwo(f.num, f.exp - LeastBit(f.exp)), f.den, 15)
    ELSE LongDivision(f.num, TimesPowerOfTwo(f.den, LeastBit(f.exp) - f.exp), 15)

\* round to nearest, ties to even
RoundedUnits(u, den) ==
    IF \/ Compare(Double(u.rem), den) > 0
       \/ Compare(Double(u.rem), den) = 0 /\ IsOdd(u.quot)
    THEN PlusOne(u.quot) ELSE u.quot

Mantissa(f) ==
    RoundedUnits(InUnits(f),
                 IF f.exp - LeastBit(f.exp) >= 0 THEN f.den
                 ELSE TimesPowerOfTwo(f.den, LeastBit(f.exp) - f.exp))

\* the float m * 2^q nearest to the value, m below 2^53
Binary64Of(m, q) ==
    IF m = TwoTo53 THEN [m |-> TwoTo52, q |-> q + 1] ELSE [m |-> m, q |-> q]

Binary64(f) == Binary64Of(Mantissa(f), LeastBit(f.exp))

\* the float nearest to 0.digits * 10^decpt
NearestFloat(digits, decpt) ==
    Binary64(Normalized(
        IF decpt >= Len(digits)
        THEN DividedByPowerOfTwo(digits \o ZeroDigits(decpt - Len(digits)), <<1>>,
                                 BinaryExponentNear(decpt))
        ELSE DividedByPowerOfTwo(digits, <<1>> \o ZeroDigits(Len(digits) - decpt),
                                 BinaryExponentNear(decpt))))

\* a * 2^w as an integer number of units of 10^min(w, 0)
InDecimalUnits(a, w) ==
    IF w >= 0 THEN TimesPowerOfTwo(a, w) ELSE TimesPowerOfFive(a, 0 - w)

\* the float and the two ends of the values that round to it, in units of
\* a quarter of its least bit: the float below a power of two is half as
\* far away
RoundingInterval(b) ==
    [x |-> InDecimalUnits(Double(Double(b.m)), b.q - 2),
     low |-> InDecimalUnits(
                IF b.m = TwoTo52 /\ b.q > MinExponent
                THEN Minus(Double(Double(b.m)), <<1>>)
                ELSE Minus(Double(Double(b.m)), <<2>>), b.q - 2),
     high |-> InDecimalUnits(PlusOne(PlusOne(Double(Double(b.m)))), b.q - 2),
     closed |-> ~IsOdd(b.m),
     unit |-> IF b.q - 2 >= 0 THEN 0 ELSE b.q - 2]

\* c rounds to the float: the ends do when the mantissa is even
RoundsBack(iv, c) ==
    IF iv.closed THEN Compare(c, iv.low) >= 0 /\ Compare(c, iv.high) <= 0
    ELSE Compare(c, iv.low) > 0 /\ Compare(c, iv.high) < 0

\* the float cut to k digits, and the next number of k digits
CutDown(iv, k) ==
    IF k >= Len(iv.x) THEN iv.x
    ELSE SubSeq(iv.x, 1, k) \o ZeroDigits(Len(iv.x) - k)
CutUp(iv, k) ==
    IF k >= Len(iv.x) THEN iv.x
    ELSE PlusOne(SubSeq(iv.x, 1, k)) \o ZeroDigits(Len(iv.x) - k)

\* what is cut off, against half a unit of the k-th digit
CutOff(iv, k) ==
    Compare(SubSeq(iv.x, k + 1, Len(iv.x)), <<5>> \o ZeroDigits(Len(iv.x) - k - 1))

\* of the numbers of k digits that round to the float, the nearest; the
\* even one of two equally near
NearestOfDigits(iv, k) ==
    IF k >= Len(iv.x) THEN iv.x
    ELSE IF ~RoundsBack(iv, CutUp(iv, k)) THEN CutDown(iv, k)
    ELSE IF ~RoundsBack(iv, CutDown(iv, k)) THEN CutUp(iv, k)
    ELSE IF CutOff(iv, k) < 0 \/ (CutOff(iv, k) = 0 /\ iv.x[k] % 2 = 0) THEN CutDown(iv, k)
    ELSE CutUp(iv, k)

\* the least number of digits that denote the float
ShortestLength(iv) ==
    SetMin({k \in 1..17 : \/ k >= Len(iv.x)
                          \/ RoundsBack(iv, CutDown(iv, k))
                          \/ RoundsBack(iv, CutUp(iv, k))})

ShortestOf(iv, c) == [digits |-> ToDigitChars(StripZeros(c)), decpt |-> Len(c) + iv.unit]

\* repr's digits of the float m * 2^q: value = 0.digits * 10^decpt
ShortestIn(iv) == ShortestOf(iv, NearestOfDigits(iv, ShortestLength(iv)))

ShortestDigits(b) == ShortestIn(RoundingInterval(b))

Signed(neg, sd) == [neg |-> neg, digits |-> sd.digits, decpt |-> sd.decpt, inf |-> FALSE]

FloatOfBinary(neg, b) ==
    IF b.m = <<>> THEN [neg |-> neg, digits |-> <<>>, decpt |-> 0, inf |-> FALSE]
    ELSE IF b.q > MaxExponent THEN [neg |-> neg, digits |-> <<>>, decpt |-> 0, inf |-> TRUE]
    ELSE Signed(neg, ShortestDigits(b))

\* a position of the decimal point, cut to one step outside the range in
\* which the digits decide
Clipped(x) ==
    IF x > MaxDecimalPoint THEN MaxDecimalPoint + 1
    ELSE IF x < MinDecimalPoint THEN MinDecimalPoint - 1
    ELSE x

\* a natural number of any size with its sign, cut in the same way
ClippedOf(neg, n) ==
    IF Len(n) > 4 THEN (IF neg THEN MinDecimalPoint - 1 ELSE MaxDecimalPoint + 1)
    ELSE Clipped((IF neg THEN 0 - 1 ELSE 1) * DigitsToNat(ToDigitChars(n)))

\* the natural number |x|
Magnitude(x) == Canon(ToNat(NatToDigits(IF x < 0 THEN 0 - x ELSE x)))

\* pNeg |p| + eNeg |e|, cut
ClippedSum(pNeg, p, eNeg, e) ==
    IF pNeg = eNeg
    THEN IF Len(e) > 4 \/ Len(p) > 4 THEN ClippedOf(pNeg, <<1>> \o ZeroDigits(4))
         ELSE Clipped((IF pNeg THEN 0 - 1 ELSE 1)
                        * (DigitsToNat(ToDigitChars(p)) + DigitsToNat(ToDigitChars(e))))
    ELSE IF Compare(p, e) >= 0 THEN ClippedOf(pNeg, Minus(p, e))
    ELSE ClippedOf(eNeg, Minus(e, p))

\* the position of the decimal point of the literal's value, 0.d1d2... *
\* 10^decpt: the point of the mantissa moved by the exponent, whatever the
\* length of either
DecimalPoint(f) ==
    ClippedSum(f.point < 0, Magnitude(f.point), f.eNeg, Canon(ToNat(f.eDig)))

FloatAt(f, decpt) ==
    IF f.digits = <<>> \/ decpt < MinDecimalPoint
    THEN [neg |-> f.neg, digits |-> <<>>, decpt |-> 0, inf |-> FALSE]
    ELSE IF decpt > MaxDecimalPoint
    THEN [neg |-> f.neg, digits |-> <<>>, decpt |-> 0, inf |-> TRUE]
    ELSE FloatOfBinary(f.neg, NearestFloat(ToNat(f.digits), decpt))

\* the float a literal denotes: its sign, the digits and the decimal point
\* of its repr; zero has no digits, an infinite one has inf
FloatRounded(f) == FloatAt(f, DecimalPoint(f))

FloatParts(lit) ==
    FloatRounded(FloatUnsigned(lit[1] = "-", IF lit[1] = "-" THEN Tail(lit) ELSE lit))

Exponent(sign, digits, ex, exDigits) ==
    sign \o <<digits[1]>>
         \o (IF Len(digits) > 1 THEN <<".">> \o Tail(digits) ELSE <<>>)
         \o <<"e", IF ex < 0 THEN "-" ELSE "+">>
         \o (IF Len(exDigits) < 2 THEN <<"0">> ELSE <<>>) \o exDigits

\* repr(float) from its parts: the shortest digits, fixed notation for
\* -4 < decpt <= 16
FloatReprOf(sign, digits, decpt, inf) ==
    IF inf THEN sign \o <<"i", "n", "f">>
    ELSE IF digits = <<>> THEN sign \o <<"0", ".", "0">>
    ELSE IF decpt > 16 \/ decpt <= -4
    THEN Exponent(sign, digits, decpt - 1,
                  NatToDigits(IF decpt - 1 < 0 THEN 1 - decpt ELSE decpt - 1))
    ELSE IF decpt <= 0
    THEN sign \o <<"0", ".">> \o Zeros(0 - decpt) \o digits
    ELSE IF decpt >= Len(digits)
    THEN sign \o digits \o Zeros(decpt - Len(digits)) \o <<".", "0">>
    ELSE sign \o SubSeq(digits, 1, decpt) \o <<".">>
              \o SubSeq(digits, decpt + 1, Len(digits))

FloatReprParts(p) ==
    FloatReprOf(IF p.neg THEN <<"-">> ELSE <<>>, p.digits, p.decpt, p.inf)

FloatRepr(lit) == IF IsSpecialFloat(lit) THEN lit ELSE FloatReprParts(FloatParts(lit))

FloatIsZero(p) == p.digits = <<>> /\ ~p.inf

\* str(number): an int prints its digits (-0 is 0), a float its repr
NumStr(lit) ==
    IF IsSpecialFloat(lit) \/ IsFloatLiteral(lit) THEN FloatRepr(lit)
    ELSE IF lit = <<"-", "0">> THEN <<"0">>
    ELSE lit

NumIsZero(lit) ==
    IF IsSpecialFloat(lit) THEN FALSE
    ELSE IF IsFloatLiteral(lit) THEN FloatIsZero(FloatParts(lit))
    ELSE lit \in {<<"0">>, <<"-", "0">>}

\* everything but None is true
TruthyNonNull(v) == v.kind # "null"

\* bool(v)
Truthy(v) ==
    CASE v.kind = "str" -> v.val # <<>>
      [] v.kind = "num" -> ~NumIsZero(v.val)
      [] v.kind = "bool" -> v.val
      [] v.kind = "null" -> FALSE
      [] OTHER -> v.val # <<>>

\* dict.get(key): the value of the last member with that key, else None
DictGet(pairs, key) ==
    LET at == {i \in 1..Len(pairs) : pairs[i][1] = key}
    IN  IF at = {} THEN JNull ELSE pairs[SetMax(at)][2]

RECURSIVE DictKeys(_, _)
\* the keys of the dict, each once, in order of first insertion
DictKeys(pairs, seen) ==
    IF pairs = <<>> THEN <<>>
    ELSE IF Head(pairs)[1] \in seen THEN DictKeys(Tail(pairs), seen)
    ELSE <<Head(pairs)[1]>> \o DictKeys(Tail(pairs), seen \cup {Head(pairs)[1]})

\* the code points for which str.isprintable() is false (the categories
\* Cc, Cf, Cs, Co, Cn, Zl, Zp, and Zs but the space; Unicode 14.0.0, the
\* database of CPython 3.11): first and last code point of each range
NonPrintableRanges ==
    <<0, 31, 127, 160, 173, 173, 888, 889, 896, 899, 907, 907, 909, 909,
      930, 930, 1328, 1328, 1367, 1368, 1419, 1420, 1424, 1424, 1480,
      1487, 1515, 1518, 1525, 1541, 1564, 1564, 1757, 1757, 1806, 1807,
      1867, 1868, 1970, 1983, 2043, 2044, 2094, 2095, 2111, 2111, 2140,
      2141, 2143, 2143, 2155, 2159, 2191, 2199, 2274, 2274, 2436, 2436,
      2445, 2446, 2449, 2450, 2473, 2473, 2481, 2481, 2483, 2485, 2490,
      2491, 2501, 2502, 2505, 2506, 2511, 2518, 2520, 2523, 2526, 2526,
      2532, 2533, 2559, 2560, 2564, 2564, 2571, 2574, 2577, 2578, 2601,
      2601, 2609, 2609, 2612, 2612, 2615, 2615, 2618, 2619, 2621, 2621,
      2627, 2630, 2633, 2634, 2638, 2640, 2642, 2648, 2653, 2653, 2655,
      2661, 2679, 2688, 2692, 2692, 2702, 2702, 2706, 2706, 2729, 2729,
      2737, 2737, 2740, 2740, 2746, 2747, 2758, 2758, 2762, 2762, 2766,
      2767, 2769, 2783, 2788, 2789, 2802, 2808, 2816, 2816, 2820, 2820,
      2829, 2830, 2833, 2834, 2857, 2857, 2865, 2865, 2868, 2868, 2874,
      2875, 2885, 2886, 2889, 2890, 2894, 2900, 2904, 2907, 2910, 2910,
      2916, 2917, 2936, 2945, 2948, 2948, 2955, 2957, 2961, 2961, 2966,
      2968, 2971, 2971, 2973, 2973, 2976, 2978, 2981, 2983, 2987, 2989,
      3002, 3005, 3011, 3013, 3017, 3017, 3022, 3023, 3025, 3030, 3032,
      3045, 3067, 3071, 3085, 3085, 3089, 3089, 3113, 3113, 3130, 3131,
      3141, 3141, 3145, 3145, 3150, 3156, 3159, 3159, 3163, 3164, 3166,
      3167, 3172, 3173, 3184, 3190, 3213, 3213, 3217, 3217, 3241, 3241,
      3252, 3252, 3258, 3259, 3269, 3269, 3273, 3273, 3278, 3284, 3287,
      3292, 3295, 3295, 3300, 3301, 3312, 3312, 3315, 3327, 3341, 3341,
      3345, 3345, 3397, 3397, 3401, 3401, 3408, 3411, 3428, 3429, 3456,
      3456, 3460, 3460, 3479, 3481, 3506, 3506, 3516, 3516, 3518, 3519,
      3527, 3529, 3531, 3534, 3541, 3541, 3543, 3543, 3552, 3557, 3568,
      3569, 3573, 3584, 3643, 3646, 3676, 3712, 3715, 3715, 3717, 3717,
      3723, 3723, 3748, 3748, 3750, 3750, 3774, 3775, 3781, 3781, 3783,
      3783, 3790, 3791, 3802, 3803, 3808, 3839, 3912, 3912, 3949, 3952,
      3992, 3992, 4029, 4029, 4045, 4045, 4059, 4095, 4294, 4294, 4296,
      4300, 4302, 4303, 4681, 4681, 4686, 4687, 4695, 4695, 4697, 4697,
      4702, 4703, 4745, 4745, 4750, 4751, 4785, 4785, 4790, 4791, 4799,
      4799, 4801, 4801, 4806, 4807, 4823, 4823, 4881, 4881, 4886, 4887,
      4955, 4956, 4989, 4991, 5018, 5023, 5110, 5111, 5118, 5119, 5760,
      5760, 5789, 5791, 5881, 5887, 5910, 5918, 5943, 5951, 5972, 5983,
      5997, 5997, 6001, 6001, 6004, 6015, 6110, 6111, 6122, 6127, 6138,
      6143, 6158, 6158, 6170, 6175, 6265, 6271, 6315, 6319, 6390, 6399,
      6431, 6431, 6444, 6447, 6460, 6463, 6465, 6467, 6510, 6511, 6517,
      6527, 6572, 6575, 6602, 6607, 6619, 6621, 6684, 6685, 6751, 6751,
      6781, 6782, 6794, 6799, 6810, 6815, 6830, 6831, 6863, 6911, 6989,
      6991, 7039, 7039, 7156, 7163, 7224, 7226, 7242, 7244, 7305, 7311,
      7355, 7356, 7368, 7375, 7419, 7423, 7958, 7959, 7966, 7967, 8006,
      8007, 8014, 8015, 8024, 8024, 8026, 8026, 8028, 8028, 8030, 8030,
      8062, 8063, 8117, 8117, 8133, 8133, 8148, 8149, 8156, 8156, 8176,
      8177, 8181, 8181, 8191, 8207, 8232, 8239, 8287, 8303, 8306, 8307,
      8335, 8335, 8349, 8351, 8385, 8399, 8433, 8447, 8588, 8591, 9255,
      9279, 9291, 9311, 11124, 11125, 11158, 11158, 11508, 11512, 11558,
      11558, 11560, 11564, 11566, 11567, 11624, 11630, 11633, 11646,
      11671, 11679, 11687, 11687, 11695, 11695, 11703, 11703, 11711,
      11711, 11719, 11719, 11727, 11727, 11735, 11735, 11743, 11743,
      11870, 11903, 11930, 11930, 12020, 12031, 12246, 12271, 12284,
      12288, 12352, 12352, 12439, 12440, 12544, 12548, 12592, 12592,
      12687, 12687, 12772, 12783, 12831, 12831, 42125, 42127, 42183,
      42191, 42540, 42559, 42744, 42751, 42955, 42959, 42962, 42962,
      42964, 42964, 42970, 42993, 43053, 43055, 43066, 43071, 43128,
      43135, 43206, 43213, 43226, 43231, 43348, 43358, 43389, 43391,
      43470, 43470, 43482, 43485, 43519, 43519, 43575, 43583, 43598,
      43599, 43610, 43611, 43715, 43738, 43767, 43776, 43783, 43784,
      43791, 43792, 43799, 43807, 43815, 43815, 43823, 43823, 43884,
      43887, 44014, 44015, 44026, 44031, 55204, 55215, 55239, 55242,
      55292, 63743, 64110, 64111, 64218, 64255, 64263, 64274, 64280,
      64284, 64311, 64311, 64317, 64317, 64319, 64319, 64322, 64322,
      64325, 64325, 64451, 64466, 64912, 64913, 64968, 64974, 64976,
      65007, 65050, 65055, 65107, 65107, 65127, 65127, 65132, 65135,
      65141, 65141, 65277, 65280, 65471, 65473, 65480, 65481, 65488,
      65489, 65496, 65497, 65501, 65503, 65511, 65511, 65519, 65531,
      65534, 65535, 65548, 65548, 65575, 65575, 65595, 65595, 65598,
      65598, 65614, 65615, 65630, 65663, 65787, 65791, 65795, 65798,
      65844, 65846, 65935, 65935, 65949, 65951, 65953, 65999, 66046,
      66175, 66205, 66207, 66257, 66271, 66300, 66303, 66340, 66348,
      66379, 66383, 66427, 66431, 66462, 66462, 66500, 66503, 66518,
      66559, 66718, 66719, 66730, 66735, 66772, 66775, 66812, 66815,
      66856, 66863, 66916, 66926, 66939, 66939, 66955, 66955, 66963,
      66963, 66966, 66966, 66978, 66978, 66994, 66994, 67002, 67002,
      67005, 67071, 67383, 67391, 67414, 67423, 67432, 67455, 67462,
      67462, 67505, 67505, 67515, 67583, 67590, 67591, 67593, 67593,
      67638, 67638, 67641, 67643, 67645, 67646, 67670, 67670, 67743,
      67750, 67760, 67807, 67827, 67827, 67830, 67834, 67868, 67870,
      67898, 67902, 67904, 67967, 68024, 68027, 68048, 68049, 68100,
      68100, 68103, 68107, 68116, 68116, 68120, 68120, 68150, 68151,
      68155, 68158, 68169, 68175, 68185, 68191, 68256, 68287, 68327,
      68330, 68343, 68351, 68406, 68408, 68438, 68439, 68467, 68471,
      68498, 68504, 68509, 68520, 68528, 68607, 68681, 68735, 68787,
      68799, 68851, 68857, 68904, 68911, 68922, 69215, 69247, 69247,
      69290, 69290, 69294, 69295, 69298, 69375, 69416, 69423, 69466,
      69487, 69514, 69551, 69580, 69599, 69623, 69631, 69710, 69713,
      69750, 69758, 69821, 69821, 69827, 69839, 69865, 69871, 69882,
      69887, 69941, 69941, 69960, 69967, 70007, 70015, 70112, 70112,
      70133, 70143, 70162, 70162, 70207, 70271, 70279, 70279, 70281,
      70281, 70286, 70286, 70302, 70302, 70314, 70319, 70379, 70383,
      70394, 70399, 70404, 70404, 70413, 70414, 70417, 70418, 70441,
      70441, 70449, 70449, 70452, 70452, 70458, 70458, 70469, 70470,
      70473, 70474, 70478, 70479, 70481, 70486, 70488, 70492, 70500,
      70501, 70509, 70511, 70517, 70655, 70748, 70748, 70754, 70783,
      70856, 70863, 70874, 71039, 71094, 71095, 71134, 71167, 71237,
      71247, 71258, 71263, 71277, 71295, 71354, 71359, 71370, 71423,
      71451, 71452, 71468, 71471, 71495, 71679, 71740, 71839, 71923,
      71934, 71943, 71944, 71946, 71947, 71956, 71956, 71959, 71959,
      71990, 71990, 71993, 71994, 72007, 72015, 72026, 72095, 72104,
      72105, 72152, 72153, 72165, 72191, 72264, 72271, 72355, 72367,
      72441, 72703, 72713, 72713, 72759, 72759, 72774, 72783, 72813,
      72815, 72848, 72849, 72872, 72872, 72887, 72959, 72967, 72967,
      72970, 72970, 73015, 73017, 73019, 73019, 73022, 73022, 73032,
      73039, 73050, 73055, 73062, 73062, 73065, 73065, 73103, 73103,
      73106, 73106, 73113, 73119, 73130, 73439, 73465, 73647, 73649,
      73663, 73714, 73726, 74650, 74751, 74863, 74863, 74869, 74879,
      75076, 77711, 77811, 77823, 78895, 82943, 83527, 92159, 92729,
      92735, 92767, 92767, 92778, 92781, 92863, 92863, 92874, 92879,
      92910, 92911, 92918, 92927, 92998, 93007, 93018, 93018, 93026,
      93026, 93048, 93052, 93072, 93759, 93851, 93951, 94027, 94030,
      94088, 94094, 94112, 94175, 94181, 94191, 94194, 94207, 100344,
      100351, 101590, 101631, 101641, 110575, 110580, 110580, 110588,
      110588, 110591, 110591, 110883, 110927, 110931, 110947, 110952,
      110959, 111356, 113663, 113771, 113775, 113789, 113791, 113801,
      113807, 113818, 113819, 113824, 118527, 118574, 118575, 118599,
      118607, 118724, 118783, 119030, 119039, 119079, 119080, 119155,
      119162, 119275, 119295, 119366, 119519, 119540, 119551, 119639,
      119647, 119673, 119807, 119893, 119893, 119965, 119965, 119968,
      119969, 119971, 119972, 119975, 119976, 119981, 119981, 119994,
      119994, 119996, 119996, 120004, 120004, 120070, 120070, 120075,
      120076, 120085, 120085, 120093, 120093, 120122, 120122, 120127,
      120127, 120133, 120133, 120135, 120137, 120145, 120145, 120486,
      120487, 120780, 120781, 121484, 121498, 121504, 121504, 121520,
      122623, 122655, 122879, 122887, 122887, 122905, 122906, 122914,
      122914, 122917, 122917, 122923, 123135, 123181, 123183, 123198,
      123199, 123210, 123213, 123216, 123535, 123567, 123583, 123642,
      123646, 123648, 124895, 124903, 124903, 124908, 124908, 124911,
      124911, 124927, 124927, 125125, 125126, 125143, 125183, 125260,
      125263, 125274, 125277, 125280, 126064, 126133, 126208, 126270,
      126463, 126468, 126468, 126496, 126496, 126499, 126499, 126501,
      126502, 126504, 126504, 126515, 126515, 126520, 126520, 126522,
      126522, 126524, 126529, 126531, 126534, 126536, 126536, 126538,
      126538, 126540, 126540, 126544, 126544, 126547, 126547, 126549,
      126550, 126552, 126552, 126554, 126554, 126556, 126556, 126558,
      126558, 126560, 126560, 126563, 126563, 126565, 126566, 126571,
      126571, 126579, 126579, 126584, 126584, 126589, 126589, 126591,
      126591, 126602, 126602, 126620, 126624, 126628, 126628, 126634,
      126634, 126652, 126703, 126706, 126975, 127020, 127023, 127124,
      127135, 127151, 127152, 127168, 127168, 127184, 127184, 127222,
      127231, 127406, 127461, 127491, 127503, 127548, 127551, 127561,
      127567, 127570, 127583, 127590, 127743, 128728, 128732, 128749,
      128751, 128765, 128767, 128884, 128895, 128985, 128991, 129004,
      129007, 129009, 129023, 129036, 129039, 129096, 129103, 129114,
      129119, 129160, 129167, 129198, 129199, 129202, 129279, 129620,
      129631, 129646, 129647, 129653, 129655, 129661, 129663, 129671,
      129679, 129709, 129711, 129723, 129727, 129734, 129743, 129754,
      129759, 129768, 129775, 129783, 129791, 129939, 129939, 129995,
      130031, 130042, 131071, 173792, 173823, 177977, 177983, 178206,
      178207, 183970, 183983, 191457, 194559, 195102, 196607, 201547,
      917759, 918000, 1114111>>

IsPrintable(cp) ==
    ~\E k \in 1..(Len(NonPrintableRanges) \div 2) :
        NonPrintableRanges[2 * k - 1] <= cp /\ cp <= NonPrintableRanges[2 * k]

\* \xHH, \uHHHH or \UHHHHHHHH, lower-case digits
ReprEscape(cp) ==
    IF cp <= 255 THEN <<"\\", "x">> \o NatToHex(cp, 2, HexDigitsLower)
    ELSE IF cp <= 65535 THEN <<"\\", "u">> \o NatToHex(cp, 4, HexDigitsLower)
    ELSE <<"\\", "U">> \o NatToHex(cp, 8, HexDigitsLower)

\* one character of repr(str) between the quotes q (unicode_repr)
ReprChar(ch, q) ==
    CASE ch = "\\" -> <<"\\", "\\">>
      [] ch = q -> <<"\\", q>>
      [] ch = "\n" -> <<"\\", "n">>
      [] ch = "\r" -> <<"\\", "r">>
      [] ch = "\t" -> <<"\\", "t">>
      [] ch \in PrintableAscii -> <<ch>>
      [] IsPrintable(CodePoint(ch)) -> <<ch>>
      [] OTHER -> ReprEscape(CodePoint(ch))

\* repr(str): single quotes unless the text holds one and no double quote
ReprStr(t) ==
    LET hasSingle == \E i \in 1..Len(t) : t[i] = "'"
        hasDouble == \E i \in 1..Len(t) : t[i] = "\""
        q == IF hasSingle /\ ~hasDouble THEN "\"" ELSE "'"
    IN  <<q>> \o Concat([i \in 1..Len(t) |-> ReprChar(t[i], q)]) \o <<q>>

RECURSIVE PyRepr(_)
\* repr(v) of a decoded value
PyRepr(v) ==
    CASE v.kind = "str" -> ReprStr(v.val)
      [] v.kind = "num" -> NumStr(v.val)
      [] v.kind = "bool" -> IF v.val THEN <<"T", "r", "u", "e">> ELSE <<"F", "a", "l", "s", "e">>
      [] v.kind = "null" -> <<"N", "o", "n", "e">>
      [] v.kind = "list" ->
            <<"[">> \o JoinWith([i \in 1..Len(v.val) |-> PyRepr(v.val[i])], <<",", " ">>) \o <<"]">>
      [] OTHER ->
            LET keys == DictKeys(v.val, {})
            IN  <<"{">>
                \o JoinWith([i \in 1..Len(keys) |->
                        ReprStr(keys[i]) \o <<":", " ">> \o PyRepr(DictGet(v.val, keys[i]))],
                     <<",", " ">>)
                \o <<"}">>

\* str(v): the text itself for a str, the repr otherwise
PyStrOf(v) == IF v.kind = "str" THEN v.val ELSE PyRepr(v)

\* every item is kept
SelectEvery(items) == items

RECURSIVE SelectNonEmpty(_)
SelectNonEmpty(texts) ==
    IF texts = <<>> THEN <<>>
    ELSE IF Head(texts) = <<>> THEN SelectNonEmpty(Tail(texts))
    ELSE <<Head(texts)>> \o SelectNonEmpty(Tail(texts))

\* ------------------------------------------------------------------------
\* The task normalizers: dictionary.py and grammar.py
\* ------------------------------------------------------------------------

Fence == <<"U+0060", "U+0060", "U+0060">>

\* [segment.strip() for segment in stripped.split(fence) if segment.strip()]
FenceSegments(t) ==
    LET parts == PySplitOn(t, Fence)
    IN  SelectNonEmpty([i \in 1..Len(parts) |-> PyStrip(parts[i])])

PyLowerAscii(ch) ==
    CASE ch = "J" -> "j"
      [] ch = "S" -> "s"
      [] ch = "O" -> "o"
      [] ch = "N" -> "n"
      [] OTHER -> ch

\* if stripped.lower().startswith("json"): stripped = stripped[4:].strip()
DropJsonPrefix(t) ==
    IF Len(t) >= 4 /\ [i \in 1..4 |-> PyLowerAscii(t[i])] = <<"j", "s", "o", "n">>
    THEN PyStrip(SubSeq(t, 5, Len(t)))
    ELSE t

\* the text from the first "{" to the last "}" when the text does not open
\* with a brace
BraceSlice(t) ==
    LET start == PyFind(t, "{")
        end == PyRFind(t, "}")
    IN  IF t # <<>> /\ ~StartsWith(PyLStrip(t), <<"{">>)
        THEN IF start # 0 /\ end # 0 /\ start < end THEN SubSeq(t, start, end) ELSE t
        ELSE t

DictionaryResult(headword, part_of_speech, definition, examples) ==
    [kind |-> "ok", headword |-> headword, part_of_speech |-> part_of_speech,
     definition |-> definition, examples |-> examples]

\* the normalizer ends in an exception instead of a result
Raised(error) == [kind |-> "raised", error |-> error]

NoDefinition == <<"N", "o", " ", "d", "e", "f", "i", "n", "i", "t", "i", "o", "n">>
KeyHeadword == <<"h", "e", "a", "d", "w", "o", "r", "d">>
KeyPartOfSpeech == 
    <<"p", "a", "r", "t", "_", "o", "f", "_", "s", "p", "e", "e",
      "c", "h">>
KeyDefinition == <<"d", "e", "f", "i", "n", "i", "t", "i", "o", "n">>
KeyExamples == <<"e", "x", "a", "m", "p", "l", "e", "s">>

\* the fenced segment the dictionary normalizer keeps: the last one
DictionaryUnfenced(stripped) ==
    LET segments == FenceSegments(stripped)
    IN  IF StartsWith(stripped, Fence) /\ segments # <<>>
        THEN segments[Len(segments)]
        ELSE stripped

DictionaryFromDict(data, fallback_word) ==
    LET headword_raw == DictGet(data, KeyHeadword)
        headword == IF Truthy(headword_raw)
                    THEN IF PyStrip(headword_raw.val) # <<>>
                         THEN PyStrip(headword_raw.val) ELSE fallback_word
                    ELSE IF PyStrip(fallback_word) # <<>>
                         THEN PyStrip(fallback_word) ELSE fallback_word
        part_of_speech_raw == DictGet(data, KeyPartOfSpeech)
        part_of_speech ==
            IF part_of_speech_raw.kind = "list"
            THEN IF part_of_speech_raw.val = <<>> \/ part_of_speech_raw.val[1].kind = "null"
                 THEN Nothing
                 ELSE Some(part_of_speech_raw.val[1].val)
            ELSE IF part_of_speech_raw.kind = "str" /\ PyStrip(part_of_speech_raw.val) # <<>>
            THEN Some(PyStrip(part_of_speech_raw.val))
            ELSE Nothing
        definition_raw == DictGet(data, KeyDefinition)
        definition_str == PyStrip(IF Truthy(definition_raw)
                                  THEN PyStrOf(definition_raw) ELSE NoDefinition)
        definition == IF definition_str # <<>> THEN definition_str ELSE NoDefinition
        examples_raw == DictGet(data, KeyExamples)
        examples ==
            IF examples_raw.kind = "list"
            THEN PyPrefix(SelectNonEmpty([i \in 1..Len(examples_raw.val) |->
                                             PyStrip(PyStrOf(examples_raw.val[i]))]), 3)
            ELSE IF examples_raw.kind = "str"
            THEN SelectNonEmpty(<<PyStrip(examples_raw.val)>>)
            ELSE <<>>
    IN  IF Truthy(headword_raw) /\ headword_raw.kind # "str"
        THEN Raised("AttributeError")
        ELSE IF /\ part_of_speech_raw.kind = "list"
                /\ part_of_speech_raw.val # <<>>
                /\ part_of_speech_raw.val[1].kind \notin {"str", "null"}
        THEN Raised("ValidationError")
        ELSE DictionaryResult(headword, part_of_speech, definition, examples)

\* the minimal entry answers the placeholder instead of the text
MinimalEntryPlaceholder(stripped, fallback_word) ==
    DictionaryResult(fallback_word, Nothing, NoDefinition, <<>>)

\* the minimal entry of a reply that is not a JSON object: the text that is
\* left is the definition
MinimalEntry(stripped, fallback_word) ==
    DictionaryResult(fallback_word, Nothing, stripped, <<>>)

\* what is left of the reply when it goes to the decoder
DictionaryJsonText(payload) ==
    BraceSlice(DropJsonPrefix(DictionaryUnfenced(PyStrip(payload))))

DictionaryDecoded(stripped, data, fallback_word) ==
    IF data.kind = "dict"
    THEN DictionaryFromDict(data.val, fallback_word)
    ELSE IF data.kind = "raised"
    THEN Raised(data.val[1])
    ELSE MinimalEntry(stripped, fallback_word)

DictionaryNonEmpty(stripped, fallback_word) ==
    DictionaryDecoded(stripped, json_loads(stripped), fallback_word)

_normalize_dictionary_result(payload, fallback_word) ==
    IF PyStrip(payload) = <<>>
    THEN DictionaryResult(fallback_word, Nothing, NoDefinition, <<>>)
    ELSE DictionaryNonEmpty(DictionaryJsonText(payload), fallback_word)

GrammarResult(is_correct, feedback, suggestion) ==
    [kind |-> "ok", is_correct |-> is_correct, feedback |-> feedback,
     suggestion |-> suggestion]

NoGrammarFeedback == 
    <<"N", "o", " ", "g", "r", "a", "m", "m", "a", "r", " ", "f",
      "e", "e", "d", "b", "a", "c", "k", " ", "r", "e", "t", "u",
      "r", "n", "e", "d", ".", " ", "P", "l", "e", "a", "s", "e",
      " ", "t", "r", "y", " ", "a", "g", "a", "i", "n", ".">>
GrammarCompleted == 
    <<"G", "r", "a", "m", "m", "a", "r", " ", "c", "h", "e", "c",
      "k", " ", "c", "o", "m", "p", "l", "e", "t", "e", "d", ".">>
KeyIsCorrect == <<"i", "s", "_", "c", "o", "r", "r", "e", "c", "t">>
KeyFeedback == <<"f", "e", "e", "d", "b", "a", "c", "k">>
KeySuggestion == <<"s", "u", "g", "g", "e", "s", "t", "i", "o", "n">>

\* the fenced segment the grammar normalizer keeps: the first one
GrammarUnfenced(stripped) ==
    LET segments == FenceSegments(stripped)
    IN  IF StartsWith(stripped, Fence) /\ segments # <<>>
        THEN segments[1]
        ELSE stripped

GrammarFromDict(data) ==
    LET feedback_raw == DictGet(data, KeyFeedback)
        feedback == PyStrip(IF Truthy(feedback_raw) THEN PyStrOf(feedback_raw) ELSE <<>>)
        suggestion_raw == DictGet(data, KeySuggestion)
        suggestion == IF suggestion_raw.kind = "null" THEN <<>>
                      ELSE PyStrip(PyStrOf(suggestion_raw))
    IN  GrammarResult(Truthy(DictGet(data, KeyIsCorrect)),
                      IF feedback = <<>> THEN GrammarCompleted ELSE feedback,
                      IF suggestion = <<>> THEN Nothing ELSE Some(suggestion))

_normalize_grammar_result(raw) ==
    LET stripped == BraceSlice(DropJsonPrefix(GrammarUnfenced(PyStrip(raw))))
        data == json_loads(stripped)
    IN  IF PyStrip(raw) = <<>>
        THEN GrammarResult(FALSE, NoGrammarFeedback, Nothing)
        ELSE IF data.kind = "dict"
        THEN GrammarFromDict(data.val)
        ELSE IF data.kind = "raised"
        THEN Raised(data.val[1])
        ELSE GrammarResult(FALSE, stripped, Nothing)

\* ------------------------------------------------------------------------
\* The normalizers on their own: reply texts written from JSON values and
\* from plain text, wrapped the ways a model wraps its answer
\* ------------------------------------------------------------------------

\* longest list of examples a reply carries
MaxExamples == 4

\* a member the object does not have
Absent == [kind |-> "absent", val |-> <<>>]

DumpsString(t) == JsonString(t)

RECURSIVE Dumps(_)
\* the JSON text of a value
Dumps(v) ==
    CASE v.kind = "str" -> DumpsString(v.val)
      [] v.kind = "num" -> v.val
      [] v.kind = "bool" -> IF v.val THEN <<"t", "r", "u", "e">> ELSE <<"f", "a", "l", "s", "e">>
      [] v.kind = "null" -> <<"n", "u", "l", "l">>
      [] v.kind = "list" ->
            <<"[">> \o JoinWith([i \in 1..Len(v.val) |-> Dumps(v.val[i])], <<",", " ">>) \o <<"]">>
      [] OTHER ->
            <<"{">>
            \o JoinWith([i \in 1..Len(v.val) |->
                    DumpsString(v.val[i][1]) \o <<":", " ">> \o Dumps(v.val[i][2])],
                 <<",", " ">>)
            \o <<"}">>

RECURSIVE Present(_)
Present(pairs) ==
    IF pairs = <<>> THEN <<>>
    ELSE IF Head(pairs)[2] = Absent THEN Present(Tail(pairs))
    ELSE <<Head(pairs)>> \o Present(Tail(pairs))

DictionaryObject(h, p, d, e) ==
    JDict(Present(<<<<KeyHeadword, h>>, <<KeyPartOfSpeech, p>>,
                    <<KeyDefinition, d>>, <<KeyExamples, e>>>>))

GrammarObject(c, f, g) ==
    JDict(Present(<<<<KeyIsCorrect, c>>, <<KeyFeedback, f>>, <<KeySuggestion, g>>>>))

TxRun == <<"r", "u", "n">>
TxRunPadded == <<" ", "r", "u", "n", " ">>
TxVerb == <<"v", "e", "r", "b">>
TxMoveFast == <<"m", "o", "v", "e", " ", "f", "a", "s", "t">>
TxFenceInside == <<"u", "s", "e", " ", "U+0060", "U+0060", "U+0060", " ", "h", "e", "r", "e">>
TxIRunDaily == <<"I", " ", "r", "u", "n", " ", "d", "a", "i", "l", "y">>
TxHePadded == <<" ", "H", "e", " ", "r", "a", "n", ".", " ">>
TxBlank == <<" ">>

HeadwordValues ==
    {Absent, JStr(TxRun), JStr(TxRunPadded), JStr(TxBlank), JStr(<<>>), JNum(<<"5">>),
     JNum(<<"0">>), JNull, JBool(TRUE), JList(<<JStr(TxRun)>>)}

PartOfSpeechValues ==
    {Absent, JStr(TxVerb), JStr(TxBlank), JNull, JNum(<<"7">>), JList(<<>>),
     JList(<<JStr(TxVerb), JStr(TxRun)>>), JList(<<JNum(<<"1">>)>>), JList(<<JNull>>)}

DefinitionValues ==
    {Absent, JStr(TxMoveFast), JStr(TxBlank), JStr(<<>>), JNull, JNum(<<"0">>),
     JNum(<<"2">>), JBool(FALSE), JList(<<JStr(TxRun)>>), JDict(<<>>)}

ExampleItems == {JStr(TxIRunDaily), JStr(TxBlank), JNum(<<"1">>)}

ExamplesValues ==
    {Absent, JStr(TxIRunDaily), JStr(TxBlank), JNull, JNum(<<"3">>), JDict(<<>>)}
    \cup {JList(l) : l \in UNION {[1..k -> ExampleItems] : k \in 0..MaxExamples}}

\* objects that vary one member over every shape
DictionaryProbes ==
    {DictionaryObject(h, Absent, Absent, Absent) : h \in HeadwordValues}
    \cup {DictionaryObject(JStr(TxRun), p, Absent, Absent) : p \in PartOfSpeechValues}
    \cup {DictionaryObject(JStr(TxRun), Absent, d, Absent) : d \in DefinitionValues}
    \cup {DictionaryObject(JStr(TxRun), Absent, Absent, e) : e \in ExamplesValues}

\* objects with non-blank string headword, part_of_speech and definition and
\* a list of non-blank example strings
WellFormedEntries ==
    {DictionaryObject(JStr(h), JStr(TxVerb), JStr(d), JList(e)) :
        h \in {TxRun, TxRunPadded},
        d \in {TxMoveFast, TxFenceInside},
        e \in UNION {[1..k -> {JStr(TxIRunDaily), JStr(TxHePadded)}] : k \in 0..MaxExamples}}

TxOk == <<"o", "k">>
TxGoodPadded == <<" ", "G", "o", "o", "d", " ", "j", "o", "b", ".", " ">>
TxFix == <<"f", "i", "x">>
TxTryPadded == <<" ", "T", "r", "y", " ", "x", " ">>

IsCorrectValues ==
    {Absent, JBool(TRUE), JBool(FALSE), JNull, JNum(<<"1">>), JNum(<<"0">>),
     JStr(<<"t", "r", "u", "e">>), JStr(<<"f", "a", "l", "s", "e">>), JStr(<<>>),
     JList(<<>>), JList(<<JBool(FALSE)>>)}

FeedbackValues ==
    {Absent, JStr(TxOk), JStr(TxGoodPadded), JStr(TxBlank), JNull, JNum(<<"3">>)}

SuggestionValues ==
    {Absent, JStr(TxFix), JStr(TxTryPadded), JStr(<<>>), JStr(TxBlank), JNull,
     JNum(<<"0">>), JBool(FALSE), JList(<<JStr(TxFix)>>)}

GrammarObjects ==
    {GrammarObject(c, f, g) :
        c \in IsCorrectValues, f \in FeedbackValues, g \in SuggestionValues}

OtherJson == {JNum(<<"5">>), JNull, JBool(TRUE), JStr(TxRun), JList(<<>>)}

PlainTexts ==
    {<<>>, TxBlank, <<"n", "o", "t", " ", "j", "s", "o", "n", " ", "a", "t", " ", "a", "l", "l">>,
     <<"j", "s", "o", "n", " ", "i", "s", " ", "c", "o", "o", "l">>,
     <<"J", "S", "O", "N", " ", "5">>,
     <<" ", "w", "o", "r", "d", " ">>,
     <<"a", " ", "}", " ", "b", " ", "{", " ", "c">>,
     <<"U+0060", "U+0060", "U+0060">>,
     <<"j", "s", "o", "n">>}

JsonSource(v) == [kind |-> "json", val |-> v]
TextSource(t) == [kind |-> "text", val |-> t]

Sources ==
    {JsonSource(v) : v \in DictionaryProbes \cup WellFormedEntries
                           \cup GrammarObjects \cup OtherJson}
    \cup {TextSource(t) : t \in PlainTexts}

SourceText(src) == IF src.kind = "json" THEN Dumps(src.val) ELSE src.val

Wrappers == {"bare", "fenced_json", "fenced", "json_prefix", "prose", "padded"}

\* the reply text: the source as it is, inside a code fence with or without
\* the json language hint, after a json hint, inside prose, or padded
Wrap(w, t) ==
    CASE w = "bare" -> t
      [] w = "fenced_json" -> Fence \o <<"j", "s", "o", "n", "\n">> \o t \o <<"\n">> \o Fence
      [] w = "fenced" -> Fence \o <<"\n">> \o t \o <<"\n">> \o Fence
      [] w = "json_prefix" -> <<"j", "s", "o", "n", " ">> \o t
      [] w = "prose" -> <<"H", "e", "r", "e", ":", " ">> \o t \o <<" ", "d", "o", "n", "e">>
      [] OTHER -> <<" ", "\n">> \o t \o <<"\n", " ">>

FallbackWords == {<<"g", "o">>, <<" ", "g", "o">>}

InitNorm ==
    /\ callerFrames = DirectFrames
    /\ base_url = RStripSlash(DefaultBaseUrl)
    /\ wordMin = 1 /\ wordMax = 1
    /\ retryAttempts = 0
    /\ systemPrompt = <<>>
    /\ source \in Sources
    /\ wrapper \in Wrappers
    /\ fallbackWord \in FallbackWords
    /\ original = Wrap(wrapper, SourceText(source))
    /\ pstep = "input"
    /\ verdict = NoVerdict
    /\ fallbackOut = Unbound
    /\ normOut = NotNormalized
    /\ IdleFill
    /\ IdleRequest

NormalizeDictionary ==
    /\ pstep = "input"
    /\ normOut' = _normalize_dictionary_result(original, fallbackWord)
    /\ pstep' = "dictionary"
    /\ UNCHANGED <<cfgVars, original, verdict, fallbackOut, source, wrapper,
                   fallbackWord, fillVars, reqVars>>

NormalizeGrammar ==
    /\ pstep = "input"
    /\ normOut' = _normalize_grammar_result(original)
    /\ pstep' = "grammar"
    /\ UNCHANGED <<cfgVars, original, verdict, fallbackOut, source, wrapper,
                   fallbackWord, fillVars, reqVars>>

NextNorm == NormalizeDictionary \/ NormalizeGrammar

SpecNorm == InitNorm /\ [][NextNorm]_vars

\* ------------------------------------------------------------------------
\* The task handlers: translate, grammar_check, dictionary_lookup. Each
\* calls the LLM client once, directly
\* ------------------------------------------------------------------------

TaskEndpoints == {"translate", "grammar", "dictionary"}
\* the handlers that hand the reply to json.loads
DecodingEndpoints == {"grammar", "dictionary"}

\* settings.llm_translation_prompt around its {target_language} field
TranslationPromptBefore == 
    <<"U+4F60", "U+662F", "U+4E00", "U+4F4D", "U+7FFB", "U+8B6F", "U+5927", "U+5E2B",
      "U+3002", "U+8ACB", "U+5C07", "U+4F7F", "U+7528", "U+8005", "U+7684", "U+8A0A",
      "U+606F", "U+7FFB", "U+8B6F", "U+6210", " ">>
TranslationPromptAfter == 
    <<"U+3002", "U+53EA", "U+8FD4", "U+56DE", "U+7FFB", "U+8B6F", "U+5F8C", "U+7684",
      "U+6587", "U+5B57", "U+FF0C", "U+4E0D", "U+8981", "U+52A0", "U+5165", "U+984D",
      "U+5916", "U+7684", "U+8A55", "U+8AD6", "U+3002">>
DefaultTargetLanguage == <<"z", "h", "-", "T", "W">>

_build_translation_messages(text, target_language) ==
    <<ChatMessage("system",
                  TranslationPromptBefore \o target_language \o TranslationPromptAfter),
      ChatMessage("user", text)>>

\* (request.target_language or "zh-TW").strip() or "zh-TW"
TargetLanguage(req) ==
    IF PyStrip(req.target_language) = <<>>
    THEN DefaultTargetLanguage
    ELSE PyStrip(req.target_language)

GrammarPrompt == <<"settings.llm_grammar_prompt">>
ContextHeader == <<"U+5C0D", "U+8A71", "U+6B77", "U+53F2", "U+FF1A", "\n">>
ContextCurrent == <<"\n", "U+5B78", "U+751F", "U+7576", "U+524D", "U+56DE", "U+8986", "U+FF1A">>
NoContextCurrent == <<"U+5B78", "U+751F", "U+56DE", "U+8986", "U+FF1A">>

RECURSIVE ContextLines(_)
\* one "role: content\n" line per assistant or user message
ContextLines(msgs) ==
    IF msgs = <<>> THEN <<>>
    ELSE (IF Head(msgs).role = "assistant"
          THEN 
    <<"a", "s", "s", "i", "s", "t", "a", "n",
      "t", ":", " ">> \o Head(msgs).content \o <<"\n">>
          ELSE IF Head(msgs).role = "user"
          THEN <<"u", "s", "e", "r", ":", " ">> \o Head(msgs).content \o <<"\n">>
          ELSE <<>>)
         \o ContextLines(Tail(msgs))

_build_grammar_messages(text, context) ==
    LET recent_context == IF Len(context) > 6
                          THEN SubSeq(context, Len(context) - 5, Len(context))
                          ELSE context
    IN  <<ChatMessage("system", GrammarPrompt),
          ChatMessage("user",
              IF context # <<>>
              THEN ContextHeader \o ContextLines(recent_context)
                   \o ContextCurrent \o text
              ELSE NoContextCurrent \o text)>>

DictionaryPrompt == <<"settings.llm_dictionary_prompt">>

\* json.dumps of a string with ensure_ascii=False
JsonEscapeUnicode(ch) ==
    IF ch \in {"\"", "\\"} \/ (ch \notin PrintableAscii /\ CodePoint(ch) < 32)
    THEN JsonEscape(ch) ELSE <<ch>>

_build_dictionary_messages(word) ==
    <<ChatMessage("system", DictionaryPrompt),
      ChatMessage("user",
          <<"{", "\"", "w", "o", "r", "d", "\"", ":", " ", "\"">>
          \o Concat([i \in 1..Len(word) |-> JsonEscapeUnicode(word[i])])
          \o <<"\"", "}">>)>>

TranslationResponse(c, raw) ==
    [translated_text |-> PyStrip(c), model |-> raw.model]

GrammarCheckResponse(normalized, raw) ==
    [is_correct |-> normalized.is_correct, feedback |-> normalized.feedback,
     suggestion |-> normalized.suggestion, model |-> raw.model]

\* `a or b` of two optional texts: b when a is None or ""
PyOr(a, b) == IF a = Nothing \/ a = Some(<<>>) THEN b ELSE a

\* `payload["model"] = metadata.get("model") or payload.get("model")`: the
\* normalized entry names no model
DictionaryResponse(normalized, model) ==
    [headword |-> normalized.headword,
     part_of_speech |-> normalized.part_of_speech,
     phonetics |-> <<>>,
     definition |-> normalized.definition,
     examples |-> normalized.examples,
     notes |-> Nothing,
     model |-> PyOr(model, Nothing)]

NoDefinitionAvailable == 
    <<"N", "o", " ", "d", "e", "f", "i", "n",
      "i", "t", "i", "o", "n", " ", "a", "v",
      "a", "i", "l", "a", "b", "l", "e", ",",
      " ", "p", "l", "e", "a", "s", "e", " ",
      "t", "r", "y", " ", "a", "g", "a", "i",
      "n", " ", "l", "a", "t", "e", "r", ".">>

\* the body dictionary_lookup answers when the client call raised
DictionaryPlaceholder(word) ==
    DictionaryResponse(
        DictionaryResult(word, Nothing, NoDefinitionAvailable, <<>>), Nothing)

\* reply texts of the provider to a task prompt: empty, plain text, a JSON
\* object, an object whose headword is a number, a fenced object
TaskReplyTexts ==
    {<<>>,
     <<" ", "o", "k", " ">>,
     <<"{", "\"", "h", "e", "a", "d", "w", "o",
       "r", "d", "\"", ":", " ", "\"", "g", "o",
       "\"", ",", " ", "\"", "d", "e", "f", "i",
       "n", "i", "t", "i", "o", "n", "\"", ":",
       " ", "\"", "m", "o", "v", "e", "\"", "}">>,
     <<"{", "\"", "h", "e", "a", "d", "w", "o",
       "r", "d", "\"", ":", " ", "5", "}">>,
     <<"U+0060", "U+0060", "U+0060", "j", "s", "o", "n", "\n",
       "{", "\"", "i", "s", "_", "c", "o", "r",
       "r", "e", "c", "t", "\"", ":", " ", "t",
       "r", "u", "e", ",", " ", "\"", "f", "e",
       "e", "d", "b", "a", "c", "k", "\"", ":",
       " ", "\"", "o", "k", "\"", "}", "\n", "U+0060",
       "U+0060", "U+0060">>}

\* the content the client returns to a task handler, a string or not
TaskReplies == {JStr(t) : t \in TaskReplyTexts} \cup NonTextContents

\* the failure is answered with an empty successful body
RaisedSwallowed(e) == [kind |-> "ok", body |-> [model |-> Nothing]]

\* the failure leaves the handler: the caller gets a request failure
RaisedResponse(e) == [kind |-> "failure", error |-> e]

\* the handler is entered and runs to its client call
TranslateStart ==
    /\ pc = "start"
    /\ endpoint = "translate"
    /\ messages' = _build_translation_messages(request.text, TargetLanguage(request))
    /\ sent' = Append(sent, messages')
    /\ pc' = "await_llm"
    /\ UNCHANGED <<cfgVars, pureVars, endpoint, request, attempt_messages,
                   attempt, content, last_raw, replies, result, response, frames>>

\* the client call answers and the handler builds its response;
\* `content.strip()` on a content that is no string raises AttributeError
TranslateReturns(c, m) ==
    /\ pc = "await_llm"
    /\ endpoint = "translate"
    /\ replies' = Append(replies, Outcome(c, RawWith(Len(sent), m)))
    /\ content' = Bound(c)
    /\ last_raw' = RawWith(Len(sent), m)
    /\ IF c.kind = "str"
       THEN /\ response' = [kind |-> "ok",
                            body |-> TranslationResponse(c.val, RawWith(Len(sent), m))]
            /\ pc' = "done"
       ELSE /\ response' = RaisedResponse("AttributeError")
            /\ pc' = "failed"
    /\ UNCHANGED <<cfgVars, pureVars, endpoint, request, messages,
                   attempt_messages, attempt, sent, result, frames>>

\* the client call raises: translate has no handler for it
TranslateRaises(e) ==
    /\ pc = "await_llm"
    /\ endpoint = "translate"
    /\ replies' = Append(replies, ErrorOutcome(e))
    /\ response' = RaisedResponse(e)
    /\ pc' = "failed"
    /\ UNCHANGED <<cfgVars, pureVars, endpoint, request, messages,
                   attempt_messages, attempt, content, last_raw, sent, result,
                   frames>>

GrammarStart ==
    /\ pc = "start"
    /\ endpoint = "grammar"
    /\ messages' = _build_grammar_messages(request.text, request.context)
    /\ sent' = Append(sent, messages')
    /\ pc' = "await_llm"
    /\ UNCHANGED <<cfgVars, pureVars, endpoint, request, attempt_messages,
                   attempt, content, last_raw, replies, result, response, frames>>

\* what the normalizer of a task handler gives for the content: `.strip()`
\* on a content that is no string raises AttributeError
NormalizedOr(c, normalized) ==
    IF c.kind = "str" THEN normalized ELSE Raised("AttributeError")

\* the handler's response: an exception of the normalizer leaves the
\* handler, nothing catches it
NormalizedResponse(normalized, body) ==
    /\ response' = (IF normalized.kind = "raised"
                    THEN RaisedResponse(normalized.error)
                    ELSE [kind |-> "ok", body |-> body])
    /\ pc' = (IF normalized.kind = "raised" THEN "failed" ELSE "done")

GrammarNormalized(c) == NormalizedOr(c, _normalize_grammar_result(c.val))

GrammarReturns(c, m) ==
    /\ pc = "await_llm"
    /\ endpoint = "grammar"
    /\ replies' = Append(replies, Outcome(c, RawWith(Len(sent), m)))
    /\ content' = Bound(c)
    /\ last_raw' = RawWith(Len(sent), m)
    /\ NormalizedResponse(GrammarNormalized(c),
            GrammarCheckResponse(GrammarNormalized(c), RawWith(Len(sent), m)))
    /\ UNCHANGED <<cfgVars, pureVars, endpoint, request, messages,
                   attempt_messages, attempt, sent, result, frames>>

\* the client call raises: grammar_check has no handler for it
GrammarRaises(e) ==
    /\ pc = "await_llm"
    /\ endpoint = "grammar"
    /\ replies' = Append(replies, ErrorOutcome(e))
    /\ response' = RaisedResponse(e)
    /\ pc' = "failed"
    /\ UNCHANGED <<cfgVars, pureVars, endpoint, request, messages,
                   attempt_messages, attempt, content, last_raw, sent, result,
                   frames>>

DictionaryStart ==
    /\ pc = "start"
    /\ endpoint = "dictionary"
    /\ messages' = _build_dictionary_messages(request.word)
    /\ sent' = Append(sent, messages')
    /\ pc' = "await_llm"
    /\ UNCHANGED <<cfgVars, pureVars, endpoint, request, attempt_messages,
                   attempt, content, last_raw, replies, result, response, frames>>

\* the client call answers; an exception of the normalizer leaves the
\* handler, which catches only around the client call
DictionaryNormalized(c) ==
    NormalizedOr(c, _normalize_dictionary_result(c.val, request.word))

DictionaryReturns(c, m) ==
    /\ pc = "await_llm"
    /\ endpoint = "dictionary"
    /\ replies' = Append(replies, Outcome(c, RawWith(Len(sent), m)))
    /\ content' = Bound(c)
    /\ last_raw' = RawWith(Len(sent), m)
    /\ NormalizedResponse(DictionaryNormalized(c),
            DictionaryResponse(DictionaryNormalized(c), m))
    /\ UNCHANGED <<cfgVars, pureVars, endpoint, request, messages,
                   attempt_messages, attempt, sent, result, frames>>

\* the client call raises: `except Exception` answers the placeholder
DictionaryRaises(e) ==
    /\ pc = "await_llm"
    /\ endpoint = "dictionary"
    /\ replies' = Append(replies, ErrorOutcome(e))
    /\ response' = [kind |-> "ok", body |-> DictionaryPlaceholder(request.word)]
    /\ pc' = "done"
    /\ UNCHANGED <<cfgVars, pureVars, endpoint, request, messages,
                   attempt_messages, attempt, content, last_raw, sent, result,
                   frames>>

\* ------------------------------------------------------------------------
\* One request served by one handler
\* ------------------------------------------------------------------------

ChatRequests == {[kind |-> "chat", messages |-> m] : m \in Conversations}

TranslationRequests ==
    {[kind |-> "translate", text |-> Hi, target_language |-> l] :
        l \in {<<>>, <<" ">>, <<"j", "a", " ">>}}

GrammarCheckRequests ==
    {[kind |-> "grammar", text |-> Hi, context |-> c] :
        c \in {<<>>,
               <<ChatMessage("assistant", <<"y", "o">>), ChatMessage("user", Hi)>>}}

DictionaryRequests ==
    {[kind |-> "dictionary", word |-> w] : w \in {<<"g", "o">>, <<" ", "g", "o">>}}

RequestsOf(e) ==
    CASE e \in ChatEndpoints \cup {"main_chat", "main_chat_stream"} -> ChatRequests
      [] e = "translate" -> TranslationRequests
      [] e = "grammar" -> GrammarCheckRequests
      [] OTHER -> DictionaryRequests

\* ------------------------------------------------------------------------
\* services/llm.py: LLMService.chat_stream, iterated by the /chat/stream
\* handler of main.py
\* ------------------------------------------------------------------------

\* lines the upstream sends in one run
MaxLines == 2

\* `exc.response.text[:500]`
ErrorBodyLimit == 500

DataPrefix == <<"d", "a", "t", "a", ":">>
FrameEnd == <<"\n", "\n">>

EndsWith(t, p) == Len(t) >= Len(p) /\ SubSeq(t, Len(t) - Len(p) + 1, Len(t)) = p

Take(t, n) == SubSeq(t, 1, IF Len(t) < n THEN Len(t) ELSE n)

\* one upstream line as the frame chat_stream yields for it
FormattedLine(line) ==
    IF StartsWith(line, DataPrefix)
    THEN IF EndsWith(line, FrameEnd) THEN line ELSE line \o FrameEnd
    ELSE IF EndsWith(DataPrefix \o <<" ">> \o line, FrameEnd)
         THEN DataPrefix \o <<" ">> \o line
         ELSE DataPrefix \o <<" ">> \o line \o FrameEnd

ErrorKey == <<"e", "r", "r", "o", "r">>

\* f"data: {json.dumps({'error': text})}\n\n"
ErrorFrame(text) ==
    DataPrefix \o <<" ">> \o Dumps(JDict(<< <<ErrorKey, JStr(text)>> >>)) \o FrameEnd

\* "data: [DONE]\n\n"
SentinelFrame == DataPrefix \o <<" ", "[", "D", "O", "N", "E", "]">> \o FrameEnd

\* response.aiter_lines(): lines without their line ending; an empty line,
\* a data line, a line without the data prefix, the upstream's own
\* terminal line
UpstreamLines == {<<>>, <<"d", "a", "t", "a", ":", " ", "x">>, <<"x">>, <<"d", "a", "t", "a", ":", " ", "[", "D", "O", "N", "E", "]">>}

\* bodies of a response with an error status
ErrorBodies == {<<>>, <<"n", "o">>}

\* f"{self.base_url}/chat/completions"
UpstreamUrl ==
    base_url \o <<"/", "c", "h", "a", "t", "/", "c", "o", "m", "p", "l", "e", "t", "i", "o", "n", "s">>

\* status codes of a response that raise_for_status() rejects
StatusCodes == {404, 500}

\* the error type httpx names for the class of a status code
ErrorType(code) ==
    IF (code \div 100) = 4
    THEN <<"C", "l", "i", "e", "n", "t", " ", "e", "r", "r", "o", "r">>
    ELSE <<"S", "e", "r", "v", "e", "r", " ", "e", "r", "r", "o", "r">>

\* the reason phrase of a status code
ReasonPhrase(code) ==
    IF code = 404
    THEN <<"N", "o", "t", " ", "F", "o", "u", "n", "d">>
    ELSE <<"I", "n", "t", "e", "r", "n", "a", "l", " ", "S", "e", "r",
      "v", "e", "r", " ", "E", "r", "r", "o", "r">>

\* the three decimal digits of a status code
StatusDigits(code) ==
    <<DigitChars[(code \div 100) + 1], DigitChars[((code \div 10) % 10) + 1],
      DigitChars[(code % 10) + 1]>>

\* str(exc) of the httpx.HTTPStatusError that raise_for_status() raises
StatusMessage(code) ==
    ErrorType(code) \o <<" ", "'">> \o StatusDigits(code) \o <<" ">> \o ReasonPhrase(code)
    \o <<"'", " ", "f", "o", "r", " ", "u", "r", "l", " ", "'">>
    \o UpstreamUrl
    \o <<"'", "\n", "F", "o", "r", " ", "m", "o", "r", "e", " ", "i",
      "n", "f", "o", "r", "m", "a", "t", "i", "o", "n", " ", "c",
      "h", "e", "c", "k", ":", " ", "h", "t", "t", "p", "s", ":",
      "/", "/", "d", "e", "v", "e", "l", "o", "p", "e", "r", ".",
      "m", "o", "z", "i", "l", "l", "a", ".", "o", "r", "g", "/",
      "e", "n", "-", "U", "S", "/", "d", "o", "c", "s", "/", "W",
      "e", "b", "/", "H", "T", "T", "P", "/", "S", "t", "a", "t",
      "u", "s", "/">>
    \o StatusDigits(code)

\* str(exc) of the other exceptions: with and without a message
StreamErrors == {<<>>, <<"b", "o", "o", "m">>}

\* the exception of Response.text on a streamed body that was never read
ResponseNotRead == "ResponseNotRead"

UpstreamResponse == [kind |-> "response"]
UpstreamStatus(code, body, read) ==
    [kind |-> "status", code |-> code, body |-> body, read |-> read]
UpstreamLine(line) == [kind |-> "line", line |-> line]
UpstreamEnd == [kind |-> "end"]

LinesSoFar == Cardinality({k \in 1..Len(replies) : replies[k].kind = "line"})

streamFrame ==
    <<cfgVars, pureVars, endpoint, request, messages, attempt_messages,
      attempt, content, last_raw>>

\* main.py chat_stream builds the StreamingResponse and returns it; the
\* generator has not run and no request has gone to the upstream
MainStreamStart ==
    /\ pc = "start"
    /\ endpoint = "main_chat_stream"
    /\ response' = [kind |-> "stream"]
    /\ pc' = "built"
    /\ UNCHANGED <<streamFrame, sent, replies, result, frames>>

\* the consumer asks for the first frame: the generator enters
\* LLMService.chat_stream, which opens the request
RequestOpens ==
    /\ pc = "built"
    /\ endpoint = "main_chat_stream"
    /\ sent' = Append(sent, request.messages)
    /\ pc' = "await_response"
    /\ UNCHANGED <<streamFrame, replies, result, response, frames>>

\* the response arrives and raise_for_status() passes
ResponseArrives ==
    /\ pc = "await_response"
    /\ endpoint = "main_chat_stream"
    /\ replies' = Append(replies, UpstreamResponse)
    /\ pc' = "await_line"
    /\ UNCHANGED <<streamFrame, sent, result, response, frames>>

\* raise_for_status() raises httpx.HTTPStatusError; the handler reads
\* exc.response.text, which raises when the streamed body was not read
StatusRejected(code, body, read) ==
    /\ pc = "await_response"
    /\ endpoint = "main_chat_stream"
    /\ replies' = Append(replies, UpstreamStatus(code, body, read))
    /\ IF read
       THEN /\ frames' = Append(frames,
                    ErrorFrame(IF Take(body, ErrorBodyLimit) # <<>>
                               THEN Take(body, ErrorBodyLimit)
                               ELSE StatusMessage(code)))
            /\ pc' = "error_sent"
            /\ UNCHANGED result
       ELSE /\ result' = [kind |-> "raised", error |-> ResponseNotRead]
            /\ pc' = "failed"
            /\ UNCHANGED frames
    /\ UNCHANGED <<streamFrame, sent, response>>

\* aiter_lines() delivers one line: an empty line is skipped, another one
\* is yielded as a frame and the generator is suspended at that yield
LineArrives(line) ==
    /\ pc = "await_line"
    /\ endpoint = "main_chat_stream"
    /\ LinesSoFar < MaxLines
    /\ replies' = Append(replies, UpstreamLine(line))
    /\ frames' = IF line = <<>> THEN frames ELSE Append(frames, FormattedLine(line))
    /\ pc' = IF line = <<>> THEN "await_line" ELSE "line_sent"
    /\ UNCHANGED <<streamFrame, sent, result, response>>

\* the consumer asks for the next frame: the generator resumes after the
\* yield and waits for the next line
FrameTaken ==
    /\ pc = "line_sent"
    /\ endpoint = "main_chat_stream"
    /\ pc' = "await_line"
    /\ UNCHANGED <<streamFrame, sent, replies, result, response, frames>>

\* the upstream closes the body: the generator runs off its end
LinesEnd ==
    /\ pc = "await_line"
    /\ endpoint = "main_chat_stream"
    /\ replies' = Append(replies, UpstreamEnd)
    /\ result' = [kind |-> "exhausted"]
    /\ pc' = "done"
    /\ UNCHANGED <<streamFrame, sent, response, frames>>

\* client.stream(...) or aiter_lines() raises an exception other than
\* HTTPStatusError
UpstreamRaises(e) ==
    /\ pc \in {"await_response", "await_line"}
    /\ endpoint = "main_chat_stream"
    /\ replies' = Append(replies, ErrorOutcome(e))
    /\ frames' = Append(frames, ErrorFrame(e))
    /\ pc' = "error_sent"
    /\ UNCHANGED <<streamFrame, sent, result, response>>

\* the consumer asks for the frame after the error frame: data: [DONE] is
\* yielded and the generator is suspended at that yield
SentinelYield ==
    /\ pc = "error_sent"
    /\ endpoint = "main_chat_stream"
    /\ frames' = Append(frames, SentinelFrame)
    /\ pc' = "sentinel_sent"
    /\ UNCHANGED <<streamFrame, sent, replies, result, response>>

\* the consumer asks for a frame after data: [DONE]: the except clause
\* ends and the generator runs off its end
SentinelTaken ==
    /\ pc = "sentinel_sent"
    /\ endpoint = "main_chat_stream"
    /\ result' = [kind |-> "exhausted"]
    /\ pc' = "done"
    /\ UNCHANGED <<streamFrame, sent, replies, response, frames>>

\* asyncio.CancelledError: a BaseException, which `except Exception` does
\* not cover
CancelledError == "CancelledError"

UpstreamCancel(emitted) == [kind |-> "cancel", emitted |-> emitted]

\* the client disconnects while chat_stream awaits the response or the
\* next line: CancelledError is raised at that await, passes the two
\* except clauses of chat_stream, and event_generator of main.py logs it
\* and raises it again; thrown into the generator suspended at a yield, it
\* is raised at `yield event` of event_generator, logged and raised again
StreamCancelled ==
    /\ pc \in {"await_response", "await_line", "line_sent", "error_sent",
              "sentinel_sent"}
    /\ endpoint = "main_chat_stream"
    /\ replies' = Append(replies, UpstreamCancel(Len(frames)))
    /\ result' = [kind |-> "raised", error |-> CancelledError]
    /\ pc' = "cancelled"
    /\ UNCHANGED <<streamFrame, sent, response, frames>>

\* the client disconnects before the generator has run, or while it is
\* suspended at the yield of a line frame, of the error frame or of
\* data: [DONE]: the generator is closed there (GeneratorExit, which no
\* except clause covers) and yields nothing more
StreamClosed ==
    /\ pc \in {"built", "line_sent", "error_sent", "sentinel_sent"}
    /\ endpoint = "main_chat_stream"
    /\ replies' = Append(replies, UpstreamCancel(Len(frames)))
    /\ result' = [kind |-> "closed"]
    /\ pc' = "cancelled"
    /\ UNCHANGED <<streamFrame, sent, response, frames>>

InitStream ==
    /\ callerFrames = DirectFrames
    /\ base_url \in {RStripSlash(u) : u \in BaseUrlSettings}
    /\ wordMin = 1 /\ wordMax = 1
    /\ retryAttempts = 0
    /\ systemPrompt = <<>>
    /\ original = <<>>
    /\ pstep = "idle"
    /\ verdict = NoVerdict
    /\ fallbackOut = Unbound
    /\ IdleNormalizer
    /\ IdleFill
    /\ endpoint = "main_chat_stream"
    /\ request \in ChatRequests
    /\ pc = "start"
    /\ messages = <<>>
    /\ attempt_messages = <<>>
    /\ attempt = 0
    /\ content = Unbound
    /\ last_raw = EmptyRaw
    /\ sent = <<>>
    /\ replies = <<>>
    /\ result = NoResult
    /\ response = NoResponse
    /\ frames = <<>>

NextStream ==
    \/ MainStreamStart
    \/ RequestOpens
    \/ ResponseArrives
    \/ \E code \in StatusCodes, body \in ErrorBodies, read \in BOOLEAN :
          StatusRejected(code, body, read)
    \/ \E line \in UpstreamLines : LineArrives(line)
    \/ FrameTaken
    \/ LinesEnd
    \/ \E e \in StreamErrors : UpstreamRaises(e)
    \/ SentinelYield
    \/ SentinelTaken
    \/ StreamCancelled
    \/ StreamClosed

SpecStream == InitStream /\ [][NextStream]_vars

\* ------------------------------------------------------------------------
\* One request served by one handler of the chat router, of the task
\* routers or of the application in main.py
\* ------------------------------------------------------------------------

\* the /chat and /chat/stream handlers of main.py
MainEndpoints == {"main_chat", "main_chat_stream"}

Init ==
    /\ \E b \in WordBounds : wordMin = b[1] /\ wordMax = b[2]
    /\ retryAttempts \in (-1)..MaxRetries
    /\ systemPrompt \in {<<>>, DefaultSystemPrompt}
    /\ original = <<>>
    /\ pstep = "idle"
    /\ verdict = NoVerdict
    /\ fallbackOut = Unbound
    /\ IdleNormalizer
    /\ IdleFill
    /\ endpoint \in ChatEndpoints \cup MainEndpoints \cup TaskEndpoints
    /\ callerFrames \in (IF endpoint \in DecodingEndpoints THEN HandlerFrames
                         ELSE {DirectFrames + LoopFrames})
    /\ base_url \in (IF endpoint = "main_chat_stream"
                     THEN {RStripSlash(u) : u \in BaseUrlSettings}
                     ELSE {RStripSlash(DefaultBaseUrl)})
    /\ request \in RequestsOf(endpoint)
    /\ pc = "start"
    /\ messages = <<>>
    /\ attempt_messages = <<>>
    /\ attempt = 0
    /\ content = Unbound
    /\ last_raw = EmptyRaw
    /\ sent = <<>>
    /\ replies = <<>>
    /\ result = NoResult
    /\ response = NoResponse
    /\ frames = <<>>

Next ==
    \/ ChatStart
    \/ \E c \in Replies : AttemptReturns(c)
    \/ \E e \in ClientErrors : AttemptRaises(e)
    \/ StreamYield
    \/ StreamEnds
    \/ RouterStreamClosed
    \/ RouterStreamCancelled
    \/ MainChatStart
    \/ \E c \in Replies : MainChatReturns(c)
    \/ \E e \in ClientErrors : MainChatRaises(e)
    \/ TranslateStart
    \/ \E c \in TaskReplies, m \in UpstreamModels : TranslateReturns(c, m)
    \/ \E e \in ClientErrors : TranslateRaises(e)
    \/ GrammarStart
    \/ \E c \in TaskReplies, m \in UpstreamModels : GrammarReturns(c, m)
    \/ \E e \in ClientErrors : GrammarRaises(e)
    \/ DictionaryStart
    \/ \E c \in TaskReplies, m \in UpstreamModels : DictionaryReturns(c, m)
    \/ \E e \in ClientErrors : DictionaryRaises(e)
    \/ NextStream

Spec == Init /\ [][Next]_vars

\* ------------------------------------------------------------------------
\* Claims about the retry orchestrator
\* ------------------------------------------------------------------------

Returned == result.kind = "returned"
ReplyAt(k) == replies[k].content
ValidAt(k) == replies[k].kind = "reply" /\ _validate_response(ReplyAt(k)).ok
InvalidAt(k) == replies[k].kind = "reply" /\ ~_validate_response(ReplyAt(k)).ok

\* C2: whatever the LLM client answers, the text the orchestrator returns
\* (a validated reply or the fallback of the last invalid one) passes
\* _validate_response.
C2_ReturnedTextIsValid ==
    Returned => _validate_response(result.text).ok

\* C3: with a client that answers an invalid reply on every call and
\* max_retries >= 0, the orchestrator makes exactly max_retries + 1 calls,
\* returns the fallback of the last reply and calls no more.
C3_AllInvalidExhausts ==
    (/\ Returned
     /\ retryAttempts >= 0
     /\ \A k \in 1..Len(replies) : InvalidAt(k))
    => /\ Len(sent) = retryAttempts + 1
       /\ Len(replies) = retryAttempts + 1
       /\ result.text = _apply_fallback(ReplyAt(Len(replies)))

\* two invalid replies that differ, then the fallback of the second
C3_Witness ==
    /\ Returned /\ pc = "done"
    /\ retryAttempts = 1
    /\ Len(replies) = 2 /\ InvalidAt(1) /\ InvalidAt(2)
    /\ ReplyAt(1) # ReplyAt(2)
    /\ _apply_fallback(ReplyAt(1)) # _apply_fallback(ReplyAt(2))
    /\ result.text = _apply_fallback(ReplyAt(2))

\* trim, and collapse every run of whitespace to one space
RECURSIVE Collapsed(_)
Collapsed(t) ==
    IF t = <<>> THEN <<>>
    ELSE IF Head(t) \in Whitespace
    THEN IF Len(t) = 1 \/ t[2] \in Whitespace
         THEN Collapsed(Tail(t))
         ELSE <<" ">> \o Collapsed(Tail(t))
    ELSE <<Head(t)>> \o Collapsed(Tail(t))

RECURSIVE DropLeadingSpace(_)
DropLeadingSpace(t) ==
    IF t # <<>> /\ Head(t) \in Whitespace THEN DropLeadingSpace(Tail(t)) ELSE t

WhitespaceNormalized(t) == Collapsed(DropLeadingSpace(t))

\* C4: if the first valid reply arrives on call k, the orchestrator makes
\* exactly k calls and returns that reply, changed only by whitespace
\* normalization; the fallback is not used.
C4_FirstValidReturned ==
    \A k \in 1..Len(replies) :
        (Returned /\ ValidAt(k) /\ \A j \in 1..(k - 1) : InvalidAt(j))
        => /\ Len(sent) = k
           /\ Len(replies) = k
           /\ result.text = WhitespaceNormalized(ReplyAt(k))
           /\ result.raw = replies[k].raw

\* a valid second reply that whitespace normalization changes
C4_Witness ==
    /\ Returned /\ pc = "done"
    /\ Len(replies) = 2 /\ InvalidAt(1) /\ ValidAt(2)
    /\ ReplyAt(2) # WhitespaceNormalized(ReplyAt(2))
    /\ result.text = WhitespaceNormalized(ReplyAt(2))

\* C5: a failure raised by the LLM client on any attempt is not retried:
\* the orchestrator makes no further call, does not use the fallback and
\* propagates the failure to its caller.
C5_FailurePropagates ==
    \A k \in 1..Len(replies) :
        (endpoint \in ChatEndpoints /\ replies[k].kind = "error")
        => /\ k = Len(replies)
           /\ Len(sent) = k
           /\ result = [kind |-> "raised", error |-> replies[k].error]
           /\ pc = "failed"

\* a failure on the second attempt, after one invalid reply
C5_Witness ==
    /\ endpoint \in ChatEndpoints
    /\ Len(replies) = 2 /\ InvalidAt(1) /\ replies[2].kind = "error"
    /\ retryAttempts >= 1
    /\ result.kind = "raised"

\* ------------------------------------------------------------------------
\* Claims about the streaming chat endpoint
\* ------------------------------------------------------------------------

IsPrefix(p, q) == Len(p) <= Len(q) /\ p = SubSeq(q, 1, Len(p))

ProviderFailedAt(k) == replies[k].kind \in {"error", "status"}

\* frames the application's stream had emitted before the k-th answer
FramesBefore(k) ==
    Cardinality({j \in 1..(k - 1) : replies[j].kind = "line" /\ replies[j].line # <<>>})

\* the text the application's stream reports for a failure: the body of
\* the error response, str(exc) when the body is empty or for another
\* exception
ReportedText(o) ==
    IF o.kind = "error" THEN o.error
    ELSE IF o.body # <<>> THEN o.body
    ELSE StatusMessage(o.code)

\* C10 (as stated): on every task endpoint (chat, chat/stream, translate,
\* grammar, dictionary) a transport failure or non-success status from the
\* LLM provider surfaces to the caller as a request failure; none answers
\* it with a successful response.
C10_EveryEndpointFails ==
    \A k \in 1..Len(replies) :
        ProviderFailedAt(k)
        => /\ response.kind = "failure"
           /\ response.error = replies[k].error

\* C10 (amended): a transport failure or non-success status from the LLM
\* provider surfaces to the caller as a request failure, with no frame
\* emitted, on the chat router's chat and chat/stream, on the
\* application's /chat, on translate and on grammar.  The dictionary
\* endpoint answers a successful placeholder entry for the requested word
\* (fixed definition text, no examples, no part of speech, no model).  The
\* application's /chat/stream has begun a successful streaming response:
\* it reports the failure inside the stream as one error frame after the
\* frames already emitted, followed by data: [DONE] when the stream is read
\* to its end; after a status error whose body was not read it emits no
\* frame and the stream breaks.
C10_FailureSurfacesExceptDictionaryAndAppStream ==
    \A k \in 1..Len(replies) :
        ProviderFailedAt(k)
        => CASE endpoint = "dictionary" ->
                  /\ k = Len(replies)
                  /\ pc = "done"
                  /\ response.kind = "ok"
                  /\ response.body.headword = request.word
                  /\ response.body.definition = NoDefinitionAvailable
                  /\ response.body.examples = <<>>
                  /\ response.body.part_of_speech = Nothing
                  /\ response.body.model = Nothing
             [] endpoint = "main_chat_stream" ->
                  /\ response = [kind |-> "stream"]
                  /\ IF replies[k].kind = "status" /\ ~replies[k].read
                     THEN /\ pc = "failed"
                          /\ result = [kind |-> "raised", error |-> ResponseNotRead]
                          /\ frames = <<>>
                     ELSE /\ pc \in {"error_sent", "sentinel_sent", "done", "cancelled"}
                          /\ Len(frames) \in {FramesBefore(k) + 1, FramesBefore(k) + 2}
                          /\ frames[FramesBefore(k) + 1] = ErrorFrame(ReportedText(replies[k]))
                          /\ pc = "error_sent" => Len(frames) = FramesBefore(k) + 1
                          /\ pc \in {"sentinel_sent", "done"}
                             => /\ Len(frames) = FramesBefore(k) + 2
                                /\ frames[Len(frames)] = SentinelFrame
             [] OTHER ->
                  /\ k = Len(replies)
                  /\ pc = "failed"
                  /\ response = [kind |-> "failure", error |-> replies[k].error]
                  /\ frames = <<>>

\* the application's stream had emitted one frame when the request failed:
\* the error frame and the terminal frame follow inside the started stream
C10_Witness ==
    /\ endpoint = "main_chat_stream"
    /\ pc = "done"
    /\ response = [kind |-> "stream"]
    /\ Len(replies) = 3
    /\ replies[2].kind = "line" /\ replies[2].line # <<>>
    /\ replies[3].kind = "error" /\ replies[3].error # <<>>
    /\ Len(frames) = 3
    /\ frames[2] = ErrorFrame(replies[3].error)
    /\ frames[3] = SentinelFrame

\* ------------------------------------------------------------------------
\* Claims about the task normalizers
\* ------------------------------------------------------------------------

AppliedDictionary == pstep = "dictionary"
AppliedGrammar == pstep = "grammar"

\* the member of the object the reply was written from (None when absent)
Member(key) == DictGet(source.val.val, key)
FromObject == source.kind = "json" /\ source.val.kind = "dict"

NonBlankString(v) == v.kind = "str" /\ PyStrip(v.val) # <<>>
HasFence(t) == \E i \in 1..Len(t) : StartsWithAt(t, i, Fence)
HasBrace(t) == \E i \in 1..Len(t) : t[i] \in {"{", "}"}

\* C11: neither task normalizer ever raises: for every raw reply text,
\* JSON with members of unexpected types included, each returns a
\* structured result.
C11_NormalizersNeverRaise ==
    (AppliedDictionary \/ AppliedGrammar) => normOut.kind = "ok"

NotJsonNoFenceNoBrace ==
    /\ original # <<>>
    /\ json_loads(original) = JError
    /\ ~HasFence(original)
    /\ ~HasBrace(original)

StartsWithJsonHint(t) ==
    Len(t) >= 4 /\ [i \in 1..4 |-> PyLowerAscii(t[i])] = <<"j", "s", "o", "n">>

\* C12 (as stated): for every non-empty reply text that cannot be decoded
\* as JSON and holds no code fence and no brace, the dictionary normalizer
\* returns the fallback word, no part of speech, the trimmed reply text as
\* definition and no examples.
C12_UndecodableTextIsDefinition ==
    (AppliedDictionary /\ NotJsonNoFenceNoBrace)
    => normOut = DictionaryResult(fallbackWord, Nothing, PyStrip(original), <<>>)

\* C12 (amended): the same, for a reply text that is not blank and whose
\* trimmed form does not begin with the json hint (in any letter case); a
\* blank reply gets the definition "No definition".
C12_UndecodableTrimmedTextIsDefinition ==
    (AppliedDictionary /\ NotJsonNoFenceNoBrace)
    => IF PyStrip(original) = <<>>
       THEN normOut = DictionaryResult(fallbackWord, Nothing, NoDefinition, <<>>)
       ELSE ~StartsWithJsonHint(PyStrip(original))
            => normOut = DictionaryResult(fallbackWord, Nothing, PyStrip(original), <<>>)

\* "not json at all", padded with whitespace
C12_Witness ==
    /\ AppliedDictionary
    /\ wrapper = "padded"
    /\ source = TextSource(<<"n", "o", "t", " ", "j", "s", "o", "n", " ", "a", "t", " ", "a", "l", "l">>)
    /\ normOut.definition = <<"n", "o", "t", " ", "j", "s", "o", "n", " ", "a", "t", " ", "a", "l", "l">>
    /\ normOut.headword = fallbackWord

RECURSIVE AllNonBlankStrings(_)
AllNonBlankStrings(items) ==
    items = <<>> \/ (NonBlankString(Head(items)) /\ AllNonBlankStrings(Tail(items)))

\* an object with non-blank string headword, part_of_speech and definition
\* and a list of at most three non-blank example strings
WellFormedEntry ==
    /\ FromObject
    /\ NonBlankString(Member(KeyHeadword))
    /\ NonBlankString(Member(KeyPartOfSpeech))
    /\ NonBlankString(Member(KeyDefinition))
    /\ Member(KeyExamples).kind = "list"
    /\ Len(Member(KeyExamples).val) <= 3
    /\ AllNonBlankStrings(Member(KeyExamples).val)

\* C13: for a well-formed entry, the bare object and the object inside a
\* triple-backtick fence with the json hint both yield the object's
\* headword, part_of_speech, definition and examples (each trimmed, as the
\* normalizer's field rule has it): the fence does not change the result.
C13_FencedAndBareYieldTheFields ==
    (AppliedDictionary /\ WellFormedEntry /\ wrapper \in {"bare", "fenced_json"})
    => normOut = DictionaryResult(
                    PyStrip(Member(KeyHeadword).val),
                    Some(PyStrip(Member(KeyPartOfSpeech).val)),
                    PyStrip(Member(KeyDefinition).val),
                    [i \in 1..Len(Member(KeyExamples).val) |->
                        PyStrip(Member(KeyExamples).val[i].val)])

\* C14: for a reply that decodes to a JSON object with a boolean
\* is_correct, a non-blank string feedback and a string suggestion, the
\* grammar normalizer returns is_correct as given, the feedback trimmed, and
\* the suggestion trimmed, or absent when it is empty or blank.
C14_GrammarFieldsAsGiven ==
    (/\ AppliedGrammar /\ FromObject
     /\ wrapper \in {"bare", "padded"}
     /\ Member(KeyIsCorrect).kind = "bool"
     /\ NonBlankString(Member(KeyFeedback))
     /\ Member(KeySuggestion).kind = "str")
    => normOut = GrammarResult(
                    Member(KeyIsCorrect).val,
                    PyStrip(Member(KeyFeedback).val),
                    IF PyStrip(Member(KeySuggestion).val) = <<>>
                    THEN Nothing
                    ELSE Some(PyStrip(Member(KeySuggestion).val)))

\* is_correct false with padded feedback and suggestion
C14_Witness ==
    /\ AppliedGrammar /\ FromObject
    /\ wrapper = "bare"
    /\ Member(KeyIsCorrect) = JBool(FALSE)
    /\ normOut = GrammarResult(FALSE, <<"G", "o", "o", "d", " ", "j", "o", "b", ".">>, Some(<<"T", "r", "y", " ", "x">>))

\* ------------------------------------------------------------------------
\* Claims about LLMService.chat_stream
\* ------------------------------------------------------------------------

\* `data: {"error": `
ErrorFrameStart == <<"d", "a", "t", "a", ":", " ", "{", "\"", "e", "r", "r", "o", "r", "\"", ":", " ">>

Finished == pc \in {"done", "failed"}

\* the upstream events that are failures: an error status, an exception
UpstreamFailures ==
    {k \in 1..Len(replies) : replies[k].kind \in {"status", "error"}}

\* C15: when the upstream request fails with an HTTP status error or any
\* other exception, before or during streaming, chat_stream emits exactly
\* one error frame, then exactly one data: [DONE] frame, and ends without
\* raising to its consumer.
C15_FailureIsErrorThenDone ==
    (endpoint = "main_chat_stream" /\ Finished /\ UpstreamFailures # {})
    => /\ result.kind # "raised"
       /\ Len(frames) >= 2
       /\ StartsWith(frames[Len(frames) - 1], ErrorFrameStart)
       /\ frames[Len(frames)] = SentinelFrame
       /\ \A k \in 1..(Len(frames) - 2) : ~StartsWith(frames[k], ErrorFrameStart)

\* ------------------------------------------------------------------------
\* Claims about the conversation the chat pipeline works on
\* ------------------------------------------------------------------------

SystemPositions(conv) == {i \in 1..Len(conv) : conv[i].role = "system"}

\* the conversation is the default system prompt followed by the caller's
\* messages (and the retry turns after them)
DefaultPrepended(conv) ==
    /\ Len(conv) > Len(request.messages)
    /\ conv[1] = ChatMessage("system", systemPrompt)
    /\ SubSeq(conv, 2, Len(request.messages) + 1) = request.messages

\* C17: on every attempt the conversation passed to the LLM client holds at
\* most one system message, placed first when present; the default system
\* prompt is prepended only when it is configured and the caller supplied
\* no system message.
C17_AtMostOneSystemMessageFirst ==
    endpoint \in ChatEndpoints
    => \A k \in 1..Len(sent) :
          /\ SystemPositions(sent[k]) \subseteq {1}
          /\ DefaultPrepended(sent[k])
                => systemPrompt # <<>> /\ SystemPositions(request.messages) = {}

\* C18: _generate_response_with_constraints never changes the conversation
\* it was given: after it returns or raises, following any number of
\* retries, the caller's list holds the same messages in the same order.
C18_CallersConversationUnchanged ==
    (endpoint \in ChatEndpoints /\ pc # "start")
    => messages = _with_system_prompt(request.messages)

\* the pipeline raised after a retry that extended the working conversation
C18_Witness ==
    /\ endpoint \in ChatEndpoints
    /\ result.kind = "raised"
    /\ Len(sent) = 2
    /\ Len(attempt_messages) = Len(messages) + 2
    /\ messages # <<>>

\* ------------------------------------------------------------------------
\* Claims about the /chat handlers
\* ------------------------------------------------------------------------

\* C19: every /chat handler of the repository (the chat router's and the
\* application's in main.py) returns content obtained through the
\* constrained-generation pipeline: the sanitized form of a reply that
\* passed validation, or the output of the fallback generator.
C19_EveryChatHandlerIsConstrained ==
    (endpoint \in {"chat", "main_chat"} /\ response.kind = "ok")
    => \/ /\ content # Unbound
          /\ _validate_response(content).ok
          /\ response.body.content = Sanitized(content)
       \/ response.body.content = FallbackOf(content)

\* C20: on each attempt the orchestrator validates the whitespace-normalized
\* reply, not the raw one: a raw reply whose normalized form satisfies every
\* rule is accepted on that attempt, without a retry and without the
\* fallback.
C20_NormalizedReplyIsValidated ==
    endpoint \in ChatEndpoints
    => \A k \in 1..Len(replies) :
          (/\ replies[k].kind = "reply"
           /\ _validate_response(_normalize_whitespace(ReplyAt(k))).ok)
          => /\ k = Len(replies)
             /\ Len(sent) = k
             /\ Returned
             /\ result.text = Sanitized(ReplyAt(k))

\* ------------------------------------------------------------------------
\* Claims about the attempts of the retry loop
\* ------------------------------------------------------------------------

\* C21: attempts are strictly sequential and the working conversation only
\* grows at its tail: call k + 1 is made only after the invalid reply k and
\* receives call k's conversation followed by exactly two messages, an
\* assistant message holding the whitespace-normalized failed reply and a
\* user message holding the retry instruction that names the reply's
\* failure reason; call k receives the original conversation plus
\* 2 (k - 1) messages, and no retry turn has role system.
C21_RetryTurnsAppendedInOrder ==
    endpoint \in ChatEndpoints
    => /\ Len(sent) <= Len(replies) + 1
       /\ Len(sent) >= 1 => sent[1] = _with_system_prompt(request.messages)
       /\ \A k \in 1..Len(sent) :
             /\ Len(sent[k]) = Len(sent[1]) + 2 * (k - 1)
             /\ SubSeq(sent[k], 1, Len(sent[1])) = sent[1]
             /\ \A i \in (Len(sent[1]) + 1)..Len(sent[k]) : sent[k][i].role # "system"
       /\ \A k \in 1..(Len(sent) - 1) :
             /\ InvalidAt(k)
             /\ sent[k + 1] =
                  sent[k]
                  \o <<ChatMessage("assistant", _normalize_whitespace(ReplyAt(k))),
                       ChatMessage("user",
                           _build_retry_instruction(_validate_response(ReplyAt(k)).reason))>>
       /\ \A k \in 1..Len(replies) :
             (InvalidAt(k) /\ k - 1 < retryAttempts) => Len(sent) > k

\* a third call: the conversation of the second call, itself longer than
\* the original, followed by the turns of the second failed reply, which
\* differs from the first one and from its own normalized form
C21_Witness ==
    /\ endpoint \in ChatEndpoints
    /\ Len(sent) = 3
    /\ sent[1] # <<>>
    /\ sent[2] # sent[1]
    /\ ReplyAt(1) # ReplyAt(2)
    /\ ReplyAt(2) # _normalize_whitespace(ReplyAt(2))
    /\ _validate_response(ReplyAt(1)).reason # _validate_response(ReplyAt(2)).reason
    /\ Len(sent[3]) = Len(sent[1]) + 4
    /\ sent[3][Len(sent[1]) + 1].content = _normalize_whitespace(ReplyAt(1))
    /\ sent[3][Len(sent[1]) + 3].content = _normalize_whitespace(ReplyAt(2))

\* C22: the metadata returned by _generate_response_with_constraints is the
\* raw response of the last client call it made: that of the valid attempt
\* on success and that of the final failed attempt when the fallback is
\* returned, never that of an earlier attempt (the empty metadata when no
\* call was made at all).
C22_MetadataOfLastCall ==
    (endpoint \in ChatEndpoints /\ Returned)
    => IF sent = <<>> THEN result.raw = EmptyRaw
       ELSE /\ Len(replies) = Len(sent)
            /\ replies[Len(sent)].kind = "reply"
            /\ result.raw = replies[Len(sent)].raw
            /\ \A k \in 1..(Len(sent) - 1) : result.raw # replies[k].raw

\* the fallback returned after two failed attempts
C22_Witness ==
    /\ endpoint \in ChatEndpoints
    /\ Returned
    /\ Len(sent) = 2
    /\ InvalidAt(1) /\ InvalidAt(2)
    /\ result.text = FallbackOf(ReplyAt(2))

\* ------------------------------------------------------------------------
\* Claims about the fields the normalizers extract
\* ------------------------------------------------------------------------

\* the reply is the object itself, at most padded with whitespace
PlainObject == FromObject /\ wrapper \in {"bare", "padded"}

\* str(item).strip() of every element, the empty ones left out
TrimmedForms(items) ==
    SelectSeq([i \in 1..Len(items) |-> PyStrip(PyStrOf(items[i]))],
              LAMBDA t : t # <<>>)

\* C26 (as stated): a list-shaped examples field yields the trimmed string
\* forms of all its non-empty elements in their order; a bare string
\* yields a single-element list and any other shape the empty list.
C26_AllExamplesKept ==
    (AppliedDictionary /\ PlainObject /\ normOut.kind = "ok")
    => LET examples_raw == Member(KeyExamples)
       IN  CASE examples_raw.kind = "list" ->
                    normOut.examples = TrimmedForms(examples_raw.val)
             [] examples_raw.kind = "str" ->
                    normOut.examples = <<PyStrip(examples_raw.val)>>
             [] OTHER -> normOut.examples = <<>>

\* C26 (amended): a list-shaped examples field yields the trimmed string
\* forms of its first three non-empty elements in their order; a bare
\* string that is not blank yields the single-element list of its trimmed
\* form; a blank string and any other shape yield the empty list.
C26_FirstThreeExamplesKept ==
    (AppliedDictionary /\ PlainObject /\ normOut.kind = "ok")
    => LET examples_raw == Member(KeyExamples)
       IN  CASE examples_raw.kind = "list" ->
                    normOut.examples =
                        SubSeq(TrimmedForms(examples_raw.val), 1,
                               IF Len(TrimmedForms(examples_raw.val)) < 3
                               THEN Len(TrimmedForms(examples_raw.val)) ELSE 3)
             [] examples_raw.kind = "str" ->
                    normOut.examples =
                        IF PyStrip(examples_raw.val) = <<>> THEN <<>>
                        ELSE <<PyStrip(examples_raw.val)>>
             [] OTHER -> normOut.examples = <<>>

\* a list with a blank element between non-blank ones
C26_Witness ==
    /\ AppliedDictionary /\ PlainObject /\ normOut.kind = "ok"
    /\ Member(KeyExamples).kind = "list"
    /\ Len(Member(KeyExamples).val) = 3
    /\ Len(normOut.examples) = 2
    /\ Member(KeyExamples).val[2] = JStr(TxBlank)

\* C27: for every raw reply text the primary content field of a normalizer
\* result is never the empty string: the dictionary result's definition and
\* the grammar result's feedback hold extracted text or a placeholder.
C27_PrimaryFieldNeverEmpty ==
    /\ (AppliedDictionary /\ normOut.kind = "ok") => normOut.definition # <<>>
    /\ AppliedGrammar => normOut.feedback # <<>>

\* ------------------------------------------------------------------------
\* Claims about the end of a stream
\* ------------------------------------------------------------------------

WasCancelled == \E k \in 1..Len(replies) : replies[k].kind = "cancel"

\* C28: when a chat event stream is cancelled mid-stream, the stream
\* generator emits no further frame, and the cancellation is a clean exit
\* that is not raised past the generator.
C28_CancellationIsCleanExit ==
    (endpoint = "main_chat_stream" /\ WasCancelled)
    => /\ Len(frames) = replies[Len(replies)].emitted
       /\ result.kind # "raised"

\* C29: every stream of LLMService.chat_stream that is not cancelled ends
\* with the terminal data: [DONE] frame, whether the upstream finished
\* normally, closed early or failed, and holds that frame exactly once.
C29_StreamEndsWithOneSentinel ==
    (endpoint = "main_chat_stream" /\ Finished /\ ~WasCancelled)
    => /\ frames # <<>>
       /\ frames[Len(frames)] = SentinelFrame
       /\ Cardinality({k \in 1..Len(frames) : frames[k] = SentinelFrame}) = 1

\* ------------------------------------------------------------------------
\* Claims about the verdict of the grammar normalizer
\* ------------------------------------------------------------------------

\* C30: the grammar normalizer returns is_correct = true only when the reply
\* was written from a JSON object whose is_correct member is the boolean
\* true; for every other reply (empty, undecodable, a JSON value that is no
\* object, is_correct missing, null or of another type) it returns false.
C30_CorrectOnlyForBooleanTrue ==
    (AppliedGrammar /\ normOut.kind = "ok" /\ normOut.is_correct)
    => (FromObject /\ Member(KeyIsCorrect) = JBool(TRUE))

====
